---- MODULE Spec2Model ----
(***************************************************************************)
(* A model of rhythm-visual-fusion: the per-frame video effect pipeline    *)
(* (src/src/lib/videoEffects.ts) and the audio feature extractors          *)
(* (src/src/lib/audioProcessor.ts, mlAudioProcessor.ts,                    *)
(* meydaAudioProcessor.ts and the Meyda back-end).                         *)
(*                                                                         *)
(* Numbers the code keeps as floats are kept here as exact fixed-point     *)
(* integers: feature values and mapping intensities in tenths (1.0 = 10),  *)
(* Math.random() draws in hundredths (0.75 = 75).  Every floor / round the *)
(* code performs is performed on the exact quotient.                       *)
(***************************************************************************)
EXTENDS Integers, Sequences, FiniteSets, TLC

(***************************************************************************)
(* Bounds of the model.                                                    *)
(***************************************************************************)
\* canvas.width and canvas.height of the bound output surface
Width == 2
Height == 1
\* frame callbacks of a long play-back (more than the history capacity)
MaxFramesLong == 32
\* frame callbacks of a run in which the configuration is edited
MaxFramesEdit == 2
\* resetConfig / updateMapping calls of such a run
MaxUpdates == 1
\* frame callbacks of a run whose feature supplier calls back into the pipeline
MaxFramesReentrant == 3
\* accepted startProcessing calls of such a run
MaxStarts == 2
\* analyses (getAudioFeatures calls and analyser callbacks) of an extractor run
MaxCalls == 4
\* analyzer callbacks of a MeydaAudioProcessor run
MaxTicks == 11

\* classifier calls of MLAudioProcessor awaited at one time
MaxPending == 1
\* how far audioContext.currentTime runs in a transport run (in ticks)
MaxClock == 4
\* model loads MLAudioProcessor starts in a run
MaxLoads == 2

(***************************************************************************)
(* Program constants of VideoEffects.                                      *)
(***************************************************************************)
maxHistoryLength == 30

effectOrder == <<"displacement", "timeMachine", "pixelate", "rgb", "blur", "shake", "noise">>

EffectTypes == {"none", "noise", "displacement", "timeMachine", "pixelate", "rgb", "blur", "shake"}

FeatureNames == {"kick", "snare", "hihat", "bass", "mids", "treble", "energy", "rhythm"}

\* EFFECTS[type].minValue / maxValue, in tenths
EFFECTS == [t \in EffectTypes |->
    CASE t = "none"         -> [minValue |-> 0,  maxValue |-> 0]
      [] t = "noise"        -> [minValue |-> 0,  maxValue |-> 10]
      [] t = "displacement" -> [minValue |-> 0,  maxValue |-> 500]
      [] t = "timeMachine"  -> [minValue |-> 0,  maxValue |-> 300]
      [] t = "pixelate"     -> [minValue |-> 10, maxValue |-> 1000]
      [] t = "rgb"          -> [minValue |-> 0,  maxValue |-> 200]
      [] t = "blur"         -> [minValue |-> 0,  maxValue |-> 200]
      [] t = "shake"        -> [minValue |-> 0,  maxValue |-> 500]]

\* the mappings resetConfig installs (intensity in tenths: 0.2 is 2)
ResetMappings == <<
    [audioFeature |-> "kick",   effectType |-> "shake",        intensity |-> 100, enabled |-> TRUE],
    [audioFeature |-> "rhythm", effectType |-> "timeMachine",  intensity |-> 200, enabled |-> TRUE],
    [audioFeature |-> "bass",   effectType |-> "displacement", intensity |-> 300, enabled |-> TRUE],
    [audioFeature |-> "mids",   effectType |-> "rgb",          intensity |-> 50,  enabled |-> FALSE],
    [audioFeature |-> "treble", effectType |-> "blur",         intensity |-> 40,  enabled |-> FALSE],
    [audioFeature |-> "energy", effectType |-> "noise",        intensity |-> 2,   enabled |-> FALSE] >>

(***************************************************************************)
(* Arithmetic helpers.                                                     *)
(***************************************************************************)
Min(a, b) == IF a <= b THEN a ELSE b

Max(a, b) == IF a >= b THEN a ELSE b

\* Math.floor(n / d) for d > 0
Floor(n, d) == n \div d

\* conversion of n / d to a long (putImageData's dx, dy): truncation toward zero
Trunc(n, d) == IF n >= 0 THEN n \div d ELSE -((-n) \div d)

\* storing n / d into a Uint8ClampedArray: round to nearest, ties to even, clamp
ClampByte(n, d) ==
    LET q == n \div d
        r == n - q * d
        rounded == IF 2 * r < d THEN q
                   ELSE IF 2 * r > d THEN q + 1
                   ELSE IF q % 2 = 0 THEN q ELSE q + 1
    IN Min(Max(rounded, 0), 255)

(***************************************************************************)
(* Images: ImageData of the canvas size, a sequence of Width*Height RGBA   *)
(* pixels, pixel (x, y) at position y*Width + x + 1.                       *)
(***************************************************************************)
NumPixels == Width * Height

Positions == 1..NumPixels

XOf(p) == (p - 1) % Width

YOf(p) == (p - 1) \div Width

PosOf(x, y) == y * Width + x + 1

Transparent == [r |-> 0, g |-> 0, b |-> 0, a |-> 0]

Blank == [p \in Positions |-> Transparent]

\* the frame the video shows at its n-th capture (opaque, distinct per capture)
VideoFrame(n) ==
    [p \in Positions |->
        LET shade == (n * 7 + p * 3) % 256
        IN [r |-> shade, g |-> (shade + 40) % 256, b |-> (shade + 80) % 256, a |-> 255]]

(***************************************************************************)
(* The 2D canvas operations the effects use.  A canvas bitmap is an image; *)
(* a fully transparent pixel keeps no colour (premultiplied storage).      *)
(***************************************************************************)
InCanvas(x, y) == x >= 0 /\ x < Width /\ y >= 0 /\ y < Height

Stored(px) == IF px.a = 0 THEN Transparent ELSE px

\* ctx.clearRect(0, 0, width, height)
ClearRect(bitmap) == Blank

\* ctx.putImageData(img, dx, dy): copies, never composites
PutImageData(bitmap, img, dx, dy) ==
    [p \in Positions |->
        IF InCanvas(XOf(p) - dx, YOf(p) - dy)
        THEN Stored(img[PosOf(XOf(p) - dx, YOf(p) - dy)])
        ELSE bitmap[p]]

\* ctx.getImageData(0, 0, width, height)
GetImageData(bitmap) == bitmap

\* source-over compositing of one sampled pixel (alpha is 0 or 255 here)
SourceOver(sample, under) == IF sample.a = 0 THEN under ELSE sample

\* ctx.drawImage(src, 0, 0, w, h, 0, 0, w / k, h / k): src scaled down by k
DrawImageDown(bitmap, src, k) ==
    [p \in Positions |->
        IF XOf(p) * k < Width /\ YOf(p) * k < Height
        THEN SourceOver(src[PosOf(XOf(p) * k, YOf(p) * k)], bitmap[p])
        ELSE bitmap[p]]

\* ctx.drawImage(src, 0, 0, w / k, h / k, 0, 0, w, h): nearest-neighbour scale up by k
DrawImageUp(bitmap, src, k) ==
    [p \in Positions |->
        SourceOver(src[PosOf(XOf(p) \div k, YOf(p) \div k)], bitmap[p])]

\* ctx.filter = blur(radius px); ctx.drawImage(src, 0, 0): the blurred source
\* drawn over the bitmap (the blur is taken as the mean of the opaque pixels
\* within the radius)
DrawImageBlurred(bitmap, src, radius) ==
    [p \in Positions |->
        LET near == {q \in Positions :
                        /\ XOf(q) - XOf(p) <= radius /\ XOf(p) - XOf(q) <= radius
                        /\ YOf(q) - YOf(p) <= radius /\ YOf(p) - YOf(q) <= radius
                        /\ src[q].a = 255}
            n == Cardinality(near)
            Sum[S \in SUBSET near, c \in {"r", "g", "b"}] ==
                IF S = {} THEN 0
                ELSE LET q == CHOOSE e \in S : TRUE
                     IN src[q][c] + Sum[S \ {q}, c]
        IN IF n = 0 THEN bitmap[p]
           ELSE [r |-> Sum[near, "r"] \div n, g |-> Sum[near, "g"] \div n,
                 b |-> Sum[near, "b"] \div n, a |-> 255]]

(***************************************************************************)
(* Inputs of one frame callback that the pipeline does not compute itself: *)
(* the supplier's feature vector, the control maps of the noise generator  *)
(* (their red channel) and the draws of Math.random().                     *)
(***************************************************************************)
FeatureVector(kick, bass, rhythm, other) ==
    [f \in FeatureNames |->
        CASE f = "kick" -> kick [] f = "bass" -> bass [] f = "rhythm" -> rhythm
          [] OTHER -> other]

ZeroFeatures == FeatureVector(0, 0, 0, 0)

FeatureChoices == {ZeroFeatures, FeatureVector(10, 10, 10, 10), FeatureVector(0, 10, 0, 0)}

\* red channel of a control map: all black, all white, a left-to-right ramp
MapChoices == {"black", "white", "ramp"}

MapRed(m, p) ==
    CASE m = "black" -> 0
      [] m = "white" -> 255
      [] OTHER -> (XOf(p) * 255) \div Width

\* k-th draw (k = 0, 1, ...) of Math.random() within one effect, in hundredths
RandomChoices == {"low", "high", "alternate"}

RandomDraw(s, k) ==
    CASE s = "low" -> 25
      [] s = "high" -> 75
      [] OTHER -> IF k % 2 = 0 THEN 75 ELSE 25

(***************************************************************************)
(* The effects.  featureValue and intensity are in tenths.                 *)
(***************************************************************************)
\* a displacement that wraps the sampled coordinates around the image
ApplyDisplacementEffectWrapped(sourceImage, displacementMap, featureValue, intensity) ==
    [p \in Positions |->
        LET scaled == (2 * MapRed(displacementMap, p) - 255) * featureValue * intensity
            sourceX == (XOf(p) + Floor(scaled * Width, 25500000)) % Width
            sourceY == (YOf(p) + Floor(scaled * Height, 25500000)) % Height
        IN sourceImage[PosOf(sourceX, sourceY)]]

\* applyDisplacementEffect(sourceImage, displacementMap, featureValue * intensity / 50):
\* displace = (map / 255 - 0.5) * (fv * in / 50) * width * 0.1, the same map
\* channel driving both axes; the sampled coordinates are floored and clamped
ApplyDisplacementEffect(sourceImage, displacementMap, featureValue, intensity) ==
    [p \in Positions |->
        LET scaled == (2 * MapRed(displacementMap, p) - 255) * featureValue * intensity
            sourceX == Max(0, Min(Width - 1, XOf(p) + Floor(scaled * Width, 25500000)))
            sourceY == Max(0, Min(Height - 1, YOf(p) + Floor(scaled * Height, 25500000)))
        IN sourceImage[PosOf(sourceX, sourceY)]]

\* a history index that spans the whole history whatever the intensity
FrameIdxWholeHistory(timeMap, history, featureValue, intensity, p) ==
    LET maxFrameOffset == Len(history) - 1
        frameOffset == Floor((255 - MapRed(timeMap, p)) * maxFrameOffset, 255)
    IN Min(frameOffset, Len(history) - 1)

\* the history index applyTimeMachineEffect computes for pixel p (from 0)
FrameIdx(timeMap, history, featureValue, intensity, p) ==
    LET maxFrameOffset == Min(Floor(featureValue * intensity, 100), Len(history) - 1)
        frameOffset == Floor((255 - MapRed(timeMap, p)) * maxFrameOffset, 255)
    IN Min(frameOffset, Len(history) - 1)

\* applyTimeMachineEffect(sourceImage, timeMap, featureValue * intensity)
ApplyTimeMachineEffect(sourceImage, timeMap, history, featureValue, intensity) ==
    IF Len(history) < 2 THEN sourceImage
    ELSE [p \in Positions |->
            LET frameIdx == FrameIdx(timeMap, history, featureValue, intensity, p)
            IN IF frameIdx >= 0 /\ frameIdx < Len(history)
               THEN [history[frameIdx + 1][p] EXCEPT !.a = 255]
               ELSE sourceImage[p]]

\* case 'noise': a first draw decides whether the pixel is touched, a second
\* gives the amount (rand - 0.5) * intensity * 255 * value added to r, g and b
NoiseEffect(sourceImage, value, intensity, random) ==
    LET Touched[p \in Positions] ==
            RandomDraw(random, 2 * (p - 1)) > 50
        amount(p) == (RandomDraw(random, 2 * (p - 1) + 1) - 50) * intensity * 255 * value
    IN [p \in Positions |->
            IF Touched[p]
            THEN [r |-> ClampByte(sourceImage[p].r * 10000 + amount(p), 10000),
                  g |-> ClampByte(sourceImage[p].g * 10000 + amount(p), 10000),
                  b |-> ClampByte(sourceImage[p].b * 10000 + amount(p), 10000),
                  a |-> sourceImage[p].a]
            ELSE sourceImage[p]]

\* case 'pixelate': the temp canvas is cleared, then drawn onto itself scaled
\* down and back up
PixelateEffect(sourceImage, value, intensity) ==
    LET pixelSize == Max(1, Floor(value * intensity, 100))
        loaded == PutImageData(Blank, sourceImage, 0, 0)
        cleared == ClearRect(loaded)
        down == DrawImageDown(cleared, cleared, pixelSize)
        up == DrawImageUp(down, down, pixelSize)
    IN GetImageData(up)

\* case 'rgb': red sampled rgbOffset to the left, blue rgbOffset to the right
RgbEffect(sourceImage, value, intensity) ==
    LET rgbOffset == Floor(value * intensity, 100)
    IN IF rgbOffset = 0 THEN sourceImage
       ELSE [p \in Positions |->
                LET rX == XOf(p) - rgbOffset
                    bX == XOf(p) + rgbOffset
                IN [r |-> IF rX >= 0 /\ rX < Width
                          THEN sourceImage[PosOf(rX, YOf(p))].r ELSE sourceImage[p].r,
                    g |-> sourceImage[p].g,
                    b |-> IF bX >= 0 /\ bX < Width
                          THEN sourceImage[PosOf(bX, YOf(p))].b ELSE sourceImage[p].b,
                    a |-> sourceImage[p].a]]

\* case 'blur'
BlurEffect(sourceImage, value, intensity) ==
    LET blurRadius == Floor(value * intensity, 100)
        loaded == PutImageData(ClearRect(Blank), sourceImage, 0, 0)
    IN IF blurRadius = 0 THEN sourceImage
       ELSE GetImageData(DrawImageBlurred(loaded, loaded, blurRadius))

\* case 'shake': the image is put at a random offset on the cleared temp canvas
ShakeEffect(sourceImage, value, intensity, random) ==
    LET shakeX == Trunc((RandomDraw(random, 0) - 50) * value * intensity, 10000)
        shakeY == Trunc((RandomDraw(random, 1) - 50) * value * intensity, 10000)
    IN GetImageData(PutImageData(ClearRect(Blank), sourceImage, shakeX, shakeY))

\* applyGenericEffect(sourceImage, effectType, audioValue, intensity)
ApplyGenericEffect(sourceImage, effectType, audioValue, intensity, random) ==
    LET value == Min(Max(audioValue, 0), 10)
    IN CASE effectType = "noise" -> NoiseEffect(sourceImage, value, intensity, random)
         [] effectType = "pixelate" -> PixelateEffect(sourceImage, value, intensity)
         [] effectType = "rgb" -> RgbEffect(sourceImage, value, intensity)
         [] effectType = "blur" -> BlurEffect(sourceImage, value, intensity)
         [] effectType = "shake" -> ShakeEffect(sourceImage, value, intensity, random)
         [] OTHER -> sourceImage

(***************************************************************************)
(* State.                                                                  *)
(***************************************************************************)
VARIABLES
    \* VideoEffects fields (canvas, ctx, video: TRUE when not null;
    \* animationFrameId: 0 when null)
    canvas, ctx, video, config, isProcessing, animationFrameId, frameHistory,
    lastAudioFeatures,
    \* the browser: pending requestAnimationFrame callbacks, the next handle it
    \* hands out, the bitmap of the output canvas
    scheduled, nextId, display,
    \* what the last frame callback did: its inputs and, per sorted mapping,
    \* the effect step taken
    frameIn, chain,
    \* history of the run: frames captured so far (the video's clock), frames
    \* captured since the last accepted startProcessing, whether stopProcessing
    \* has returned with no startProcessing call since, accepted starts, updates
    captured, sinceStart, stopped, starts, updates,
    \* allowances of this run (fixed at Init)
    budget,
    \* VideoPreview: audioFeaturesRef.current and isPlayingRef.current, which
    \* the feature supplier reads
    audioFeaturesRef, isPlayingRef

videoVars == <<canvas, ctx, video, config, isProcessing, animationFrameId, frameHistory,
               lastAudioFeatures, scheduled, nextId, display, frameIn, chain,
               captured, sinceStart, stopped, starts, updates, budget,
               audioFeaturesRef, isPlayingRef>>

supplierVars == <<audioFeaturesRef, isPlayingRef>>

(***************************************************************************)
(* VideoEffects: configuration.                                            *)
(***************************************************************************)
\* { ...mapping, ...updates }
Merge(mapping, upd) ==
    [k \in DOMAIN mapping |-> IF k \in DOMAIN upd THEN upd[k] ELSE mapping[k]]

\* updateMapping with the index counted from 1
UpdatedMappingsFromOne(mappings, index, upd) ==
    IF index >= 1 /\ index <= Len(mappings)
    THEN [mappings EXCEPT ![index] = Merge(mappings[index], upd)]
    ELSE mappings

\* updateMapping(index, updates), index counted from 0
UpdatedMappings(mappings, index, upd) ==
    IF index >= 0 /\ index < Len(mappings)
    THEN [mappings EXCEPT ![index + 1] = Merge(mappings[index + 1], upd)]
    ELSE mappings

\* out of range on either side, an enabled mapping, a disabled one
IndexChoices == {-1, 1, 5, Len(ResetMappings)}

UpdateChoices ==
    {[enabled |-> TRUE], [enabled |-> FALSE], [intensity |-> 0], [intensity |-> 600]}
    \cup {[effectType |-> t] : t \in {"none", "pixelate", "shake"}}

(***************************************************************************)
(* VideoEffects: the per-frame algorithm.                                  *)
(***************************************************************************)
\* effectOrder.indexOf(t): position counted from 0, -1 when absent
IndexOf(order, t) ==
    IF \E i \in 1..Len(order) : order[i] = t
    THEN (CHOOSE i \in 1..Len(order) : order[i] = t /\ \A j \in 1..(i - 1) : order[j] # t) - 1
    ELSE -1

\* config.mappings.filter(m => m.enabled && m.effectType !== 'none')
EnabledMappings(mappings) ==
    SelectSeq(mappings, LAMBDA m : m.enabled /\ m.effectType # "none")

\* the comparator of the sort: orderA - orderB
Compare(a, b) == IndexOf(effectOrder, a.effectType) - IndexOf(effectOrder, b.effectType)

\* [...mappings].sort(compare): Array.prototype.sort is stable
SortMappingsUnsorted(mappings) == mappings

\* an insertion that puts a mapping before the mappings of its own effect type
RECURSIVE InsertSortedBeforeEqual(_, _)
InsertSortedBeforeEqual(sorted, m) ==
    IF sorted = <<>> THEN <<m>>
    ELSE IF Compare(sorted[Len(sorted)], m) < 0 THEN Append(sorted, m)
    ELSE Append(InsertSortedBeforeEqual(SubSeq(sorted, 1, Len(sorted) - 1), m),
                sorted[Len(sorted)])

RECURSIVE InsertSorted(_, _)
InsertSorted(sorted, m) ==
    IF sorted = <<>> THEN <<m>>
    ELSE IF Compare(sorted[Len(sorted)], m) <= 0 THEN Append(sorted, m)
    ELSE Append(InsertSorted(SubSeq(sorted, 1, Len(sorted) - 1), m), sorted[Len(sorted)])

RECURSIVE SortMappings(_)
SortMappings(mappings) ==
    IF mappings = <<>> THEN <<>>
    ELSE InsertSorted(SortMappings(SubSeq(mappings, 1, Len(mappings) - 1)),
                      mappings[Len(mappings)])

PushHistoryShift(history, frame) ==
    LET pushed == <<frame>> \o history
    IN IF Len(pushed) > maxHistoryLength THEN SubSeq(pushed, 2, Len(pushed)) ELSE pushed

\* frameHistory.unshift(frame); if (length > maxHistoryLength) frameHistory.pop()
PushHistory(history, frame) ==
    LET pushed == <<frame>> \o history
    IN IF Len(pushed) > maxHistoryLength THEN SubSeq(pushed, 1, Len(pushed) - 1) ELSE pushed

TimeMachineGuardLate(history) == Len(history) >= 3

\* the guard of the timeMachine branch of the loop: frameHistory.length >= 2
TimeMachineGuard(history) == Len(history) >= 2

\* a displacement that writes its result into the buffer of its source image
SourceAfterInPlace(effectType, sourceImage, output) ==
    IF effectType = "displacement" THEN output ELSE sourceImage

\* what an effect leaves in the ImageData it was handed: every effect reads
\* sourceImage.data and writes to a buffer of its own (resultData, noiseData,
\* rgbData, the temp canvas)
SourceAfter(effectType, sourceImage, output) == sourceImage

\* the effect hands back the very ImageData it was given: a timeMachine
\* waiting for history, an rgb split or a blur of 0 pixels
ReturnsSource(effectType, applied, featureValue, intensity) ==
    \/ effectType = "timeMachine" /\ ~applied
    \/ effectType \in {"rgb", "blur"} /\ Floor(Min(Max(featureValue, 0), 10) * intensity, 100) = 0

\* one turn of the loop over sortedMappings: the effect applied to currentImage
EffectStep(mapping, currentImage, features, history, inputs) ==
    LET featureValue == features[mapping.audioFeature]
        applied == mapping.effectType = "timeMachine" => TimeMachineGuard(history)
        output ==
            IF mapping.effectType = "displacement"
            THEN ApplyDisplacementEffect(currentImage, inputs.displacementMap, featureValue,
                                         mapping.intensity)
            ELSE IF mapping.effectType = "timeMachine"
            THEN IF applied
                 THEN ApplyTimeMachineEffect(currentImage, inputs.timeMachineMap, history,
                                             featureValue, mapping.intensity)
                 ELSE currentImage
            ELSE ApplyGenericEffect(currentImage, mapping.effectType, featureValue,
                                    mapping.intensity, inputs.random)
    IN [effectType |-> mapping.effectType, featureValue |-> featureValue,
        intensity |-> mapping.intensity, input |-> currentImage,
        applied |-> applied, output |-> output,
        sameObject |-> ReturnsSource(mapping.effectType, applied, featureValue,
                                     mapping.intensity),
        sourceAfter |-> SourceAfter(mapping.effectType, currentImage, output)]

\* the loop over sortedMappings, from currentImage = currentFrame
RECURSIVE EffectChain(_, _, _, _, _)
EffectChain(sortedMappings, currentImage, features, history, inputs) ==
    IF sortedMappings = <<>> THEN <<>>
    ELSE LET step == EffectStep(Head(sortedMappings), currentImage, features, history, inputs)
         IN <<step>> \o EffectChain(Tail(sortedMappings), step.output, features, history, inputs)

\* what the ImageData captured by the callback, which is frameHistory[0] and
\* the first currentImage, holds after the loop: the effects handed that very
\* object are the first one and those behind effects that returned it
RECURSIVE StoredFrame(_, _)
StoredFrame(steps, currentFrame) ==
    IF steps = <<>> THEN currentFrame
    ELSE IF Head(steps).sameObject
         THEN StoredFrame(Tail(steps), Head(steps).sourceAfter)
         ELSE Head(steps).sourceAfter

\* the image handed to ctx.putImageData at the end of the callback
FinalImage(steps, currentFrame) ==
    IF steps = <<>> THEN currentFrame ELSE steps[Len(steps)].output

(***************************************************************************)
(* VideoEffects: the render loop.  startProcessing and stopProcessing are  *)
(* written on a record of the fields they touch, so that the supplier of a *)
(* frame callback can call them from inside the callback.                  *)
(***************************************************************************)
Loop ==
    [isProcessing |-> isProcessing, animationFrameId |-> animationFrameId,
     frameHistory |-> frameHistory, scheduled |-> scheduled, nextId |-> nextId,
     sinceStart |-> sinceStart, stopped |-> stopped, starts |-> starts]

SetLoop(s) ==
    /\ isProcessing' = s.isProcessing
    /\ animationFrameId' = s.animationFrameId
    /\ frameHistory' = s.frameHistory
    /\ scheduled' = s.scheduled
    /\ nextId' = s.nextId
    /\ sinceStart' = s.sinceStart
    /\ stopped' = s.stopped
    /\ starts' = s.starts

\* requestAnimationFrame(render), the handle stored in animationFrameId
RequestFrame(s) ==
    [s EXCEPT !.animationFrameId = s.nextId,
              !.scheduled = @ \cup {s.nextId},
              !.nextId = @ + 1]

\* startProcessing(getAudioFeatures)
StartProcessingOp(s) ==
    IF s.isProcessing THEN [s EXCEPT !.stopped = FALSE]
    ELSE RequestFrame([s EXCEPT !.isProcessing = TRUE,
                                !.frameHistory = <<>>,
                                !.sinceStart = 0,
                                !.stopped = FALSE,
                                !.starts = @ + 1])

\* stopProcessing()
StopProcessingOp(s) ==
    [s EXCEPT !.isProcessing = FALSE,
              !.scheduled = IF s.animationFrameId # 0 THEN @ \ {s.animationFrameId} ELSE @,
              !.animationFrameId = 0,
              !.stopped = TRUE]

RenderUnavailableKeepsFlag(s) == s

\* render, when ctx, video or canvas is null
RenderUnavailableOp(s) == [s EXCEPT !.isProcessing = FALSE]

\* what the feature supplier does to the pipeline while it runs inside render
ReentryChoices == {"none", "stop", "start", "stopThenStart"}

Reenter(how, s) ==
    CASE how = "stop" -> StopProcessingOp(s)
      [] how = "start" -> StartProcessingOp(s)
      [] how = "stopThenStart" -> StartProcessingOp(StopProcessingOp(s))
      [] OTHER -> s

\* the feature supplier VideoPreview hands to startProcessing: a copy of
\* audioFeaturesRef.current, or zeros while isPlayingRef.current is false
Supplier(ref, playing) ==
    IF ~playing THEN ZeroFeatures ELSE [f \in FeatureNames |-> ref[f]]

\* the callback the browser runs next: callbacks run in the order requested
NextCallback == CHOOSE id \in scheduled : \A other \in scheduled : id <= other

Available == ctx /\ video /\ canvas

FrameInputs ==
    {[displacementMap |-> "black", timeMachineMap |-> "ramp", random |-> "alternate"],
     [displacementMap |-> "white", timeMachineMap |-> "black", random |-> "high"],
     [displacementMap |-> "ramp", timeMachineMap |-> "white", random |-> "low"]}

\* the runs explored: a long play-back, a run with configuration edits, a run
\* whose feature supplier calls startProcessing / stopProcessing
Budgets ==
    {[frames |-> MaxFramesLong, updates |-> 0, starts |-> 1, reentrant |-> FALSE],
     [frames |-> MaxFramesEdit, updates |-> MaxUpdates, starts |-> 1, reentrant |-> FALSE],
     [frames |-> MaxFramesReentrant, updates |-> 0, starts |-> MaxStarts, reentrant |-> TRUE]}

(***************************************************************************)
(* The audio feature extractors.  Feature values, band energies and        *)
(* thresholds are in thousandths (1.0 = 1000); analyser readings are in    *)
(* decibels (getFloatFrequencyData) or bytes (getByteFrequencyData).       *)
(***************************************************************************)
fftSize == 2048

\* analyser.frequencyBinCount
frequencyBinCount == fftSize \div 2

\* audioContext.sampleRate
SampleRates == {44100, 48000}

Backends == {"basic", "ml", "essentia", "meyda"}

BandNames == {"kick", "snare", "hihat", "bass", "mids", "treble"}

\* a spectrum held by the analyser: one level (dB) below 300 Hz, one above
SilentFrame == [low |-> -120, high |-> -120]

Frames ==
    {SilentFrame, [low |-> 0, high |-> 0], [low |-> 0, high |-> -120],
     [low |-> -65, high |-> -65]}

\* what the analyser still holds once its source has stopped: a spectrum
\* below the one it held, down to silence
Residual(frame) ==
    {f \in Frames : /\ f.low <= frame.low /\ f.high <= frame.high
                    /\ (f # frame \/ f = SilentFrame)}

\* level of bin i (from 0), whose frequency is i * rate / fftSize
DecibelAt(rate, frame, i) ==
    IF i * rate < 300 * fftSize THEN frame.low ELSE frame.high

\* analyser.getFloatFrequencyData(array)
FloatFrequencyData(rate, frame) ==
    [k \in 1..frequencyBinCount |-> DecibelAt(rate, frame, k - 1)]

\* analyser.getByteFrequencyData(array): minDecibels -100, maxDecibels -30
ByteFrequencyData(rate, frame) ==
    [k \in 1..frequencyBinCount |->
        Max(0, Min(255, Floor(255 * (DecibelAt(rate, frame, k - 1) + 100), 70)))]

\* for (i = lo; i <= hi; i++) sum += data[i]; index i is data[i + 1]
SumRange(data, lo, hi) ==
    LET sum[from \in 0..Len(data), to \in -1..Len(data)] ==
            IF from > to THEN 0
            ELSE IF from = to THEN data[from + 1]
            ELSE LET mid == (from + to) \div 2
                 IN sum[from, mid] + sum[mid + 1, to]
    IN sum[lo, hi]

\* for (i = lo; i <= hi; i++) peak = Math.max(peak, data[i])
PeakRange(data, lo, hi) ==
    LET peak[from \in 0..Len(data), to \in 0..Len(data)] ==
            IF from = to THEN data[from + 1]
            ELSE LET mid == (from + to) \div 2
                 IN Max(peak[from, mid], peak[mid + 1, to])
    IN peak[lo, hi]

\* Math.floor((freq / nyquist) * binCount), nyquist = rate / 2
BinOf(freq, rate, binCount) == Floor(freq * binCount * 2, rate)

\* Math.ceil((freq / nyquist) * binCount)
CeilBinOf(freq, rate, binCount) == -Floor(-(freq * binCount * 2), rate)

(***************************************************************************)
(* AudioProcessor.                                                         *)
(***************************************************************************)
bands == [b \in BandNames |->
    CASE b = "kick"   -> [min |-> 40,   max |-> 120]
      [] b = "snare"  -> [min |-> 120,  max |-> 250]
      [] b = "hihat"  -> [min |-> 8000, max |-> 16000]
      [] b = "bass"   -> [min |-> 60,   max |-> 250]
      [] b = "mids"   -> [min |-> 250,  max |-> 2000]
      [] b = "treble" -> [min |-> 2000, max |-> 16000]]

\* getAverageForBand(minFreq, maxFreq) on this.frequencyData
GetAverageForBand(frequencyData, minFreq, maxFreq, rate) ==
    LET lowBin == BinOf(minFreq, rate, frequencyBinCount)
        highBin == BinOf(maxFreq, rate, frequencyBinCount)
        binCount == highBin - lowBin
    IN IF binCount <= 0 THEN 0
       ELSE Floor(SumRange(frequencyData, lowBin, highBin) * 1000, binCount * 255)

\* calculateEnergy()
CalculateEnergy(frequencyData) ==
    Floor(SumRange(frequencyData, 0, Len(frequencyData) - 1) * 1000,
          Len(frequencyData) * 255)

\* detectBeats()
DetectBeats(frequencyData, rate) ==
    LET kickEnergy == GetAverageForBand(frequencyData, bands["kick"].min,
                                        bands["kick"].max, rate)
        snareEnergy == GetAverageForBand(frequencyData, bands["snare"].min,
                                         bands["snare"].max, rate)
    IN Floor(kickEnergy * 7 + snareEnergy * 3, 10)

\* the features getAudioFeatures extracts from a reading of the analyser
ExtractFeatures(rate, frame) ==
    LET frequencyData == ByteFrequencyData(rate, frame)
    IN [f \in FeatureNames |->
           CASE f = "energy" -> CalculateEnergy(frequencyData)
             [] f = "rhythm" -> DetectBeats(frequencyData, rate)
             [] OTHER -> GetAverageForBand(frequencyData, bands[f].min, bands[f].max,
                                           rate)]

\* the extraction, evaluated once per sample rate and spectrum
ExtractedFeatures ==
    [rate \in SampleRates |-> [frame \in Frames |-> ExtractFeatures(rate, frame)]]

(***************************************************************************)
(* MLAudioProcessor, classifier not loaded.                                *)
(***************************************************************************)
\* this.smoothingFactor, in tenths
smoothingFactor == 8

kickThreshold == 150

snareThreshold == 120

\* the bands of performBasicAnalysis
mlBands == [bands EXCEPT !["kick"] = [min |-> 40, max |-> 100]]

\* Math.max(0, Math.min(1, (dB + 100) / 100)) of every bin, in hundredths
Amplitudes(frequencyData) ==
    [k \in 1..Len(frequencyData) |-> Max(0, Min(100, frequencyData[k] + 100))]

\* MLAudioProcessor.getAverageForBand: average * 0.6 + peak * 0.4
MLGetAverageForBand(amplitudes, minFreq, maxFreq, rate, binCount) ==
    LET lowBin == BinOf(minFreq, rate, binCount)
        highBin == BinOf(maxFreq, rate, binCount)
        binRange == highBin - lowBin
    IN IF binRange <= 0 THEN 0
       ELSE Floor(6 * SumRange(amplitudes, lowBin, highBin)
                      + 4 * PeakRange(amplitudes, lowBin, highBin) * binRange,
                  binRange)

\* MLAudioProcessor.calculateEnergy
MLCalculateEnergy(amplitudes) ==
    Floor(SumRange(amplitudes, 0, Len(amplitudes) - 1) * 10, Len(amplitudes))

\* rawFeatures of performBasicAnalysis, with the energy of the reading
RawFeatures(rate, frame) ==
    LET amplitudes == Amplitudes(FloatFrequencyData(rate, frame))
    IN [f \in FeatureNames |->
           CASE f = "energy" -> MLCalculateEnergy(amplitudes)
             [] f = "rhythm" -> 0
             [] OTHER -> MLGetAverageForBand(amplitudes, mlBands[f].min, mlBands[f].max,
                                             rate, Len(amplitudes))]

\* the raw features, evaluated once per sample rate and spectrum
RawFeaturesOf ==
    [rate \in SampleRates |-> [frame \in Frames |-> RawFeatures(rate, frame)]]

\* smoothValue(currentValue, lastValue)
SmoothValue(currentValue, lastValue) ==
    Floor(smoothingFactor * lastValue + (10 - smoothingFactor) * currentValue, 10)

\* Math.pow(x, 1.5) = x * sqrt(x), the root floored to a thousandth
Pow15(x) ==
    LET coarse == CHOOSE c \in 0..34 :
                      (32 * c) * (32 * c) <= x * 1000 /\ (32 * c + 32) * (32 * c + 32) > x * 1000
        root == CHOOSE r \in (32 * coarse)..(32 * coarse + 31) :
                    r * r <= x * 1000 /\ (r + 1) * (r + 1) > x * 1000
    IN Floor(x * root, 1000)

\* Math.pow(x, 1.8) = x * x / x^(1/5), the fifth root floored to a sixtieth
Pow18(x) ==
    LET root == CHOOSE r \in 0..62 : r^5 <= x * 777600 /\ (r + 1)^5 > x * 777600
    IN IF root = 0 THEN 0 ELSE Floor(x * x * 60, root * 1000)

\* calculateRhythm(kick, snare)
CalculateRhythm(kick, snare) == Floor(Pow18(kick) * 7 + Pow15(snare) * 3, 10)

\* performBasicAnalysis(frequencyData): the features returned, which also
\* become this.lastFeatures
PerformBasicAnalysis(raw, last) ==
    LET smoothed == [f \in FeatureNames |-> SmoothValue(raw[f], last[f])]
        kick == IF smoothed["kick"] > kickThreshold THEN smoothed["kick"] ELSE 0
        snare == IF smoothed["snare"] > snareThreshold THEN smoothed["snare"] ELSE 0
    IN [f \in FeatureNames |->
           CASE f = "kick" -> kick
             [] f = "snare" -> snare
             [] f = "energy" -> raw["energy"]
             [] f = "rhythm" -> CalculateRhythm(kick, snare)
             [] OTHER -> smoothed[f]]

(***************************************************************************)
(* MLAudioProcessor, classifier loaded.  A label is the set of the words   *)
(* label.includes(word) finds in it; scores are in thousandths.            *)
(***************************************************************************)
\* the condition under which the loop of processMLModelResults counts a
\* prediction for a feature
LabelMatches(label, f) ==
    CASE f = "kick" -> label \cap {"drum", "bass drum", "kick"} # {}
      [] f = "snare" -> label \cap {"snare", "clap"} # {}
      [] f = "hihat" -> label \cap {"hi-hat", "hihat", "cymbal"} # {}
      [] f = "bass" -> "bass" \in label /\ "drum" \notin label
      [] f = "energy" -> label \cap {"music", "loud"} # {}
      [] OTHER -> FALSE

\* what await this.mlModel(audioData, { topk: 10 }) can resolve to
ResultChoices ==
    {<<>>,
     <<[label |-> {"kick"}, score |-> 900], [label |-> {"snare"}, score |-> 200]>>,
     <<[label |-> {"snare", "drum"}, score |-> 300], [label |-> {"bass"}, score |-> 800],
       [label |-> {"music"}, score |-> 310]>>,
     <<[label |-> {"bass drum", "bass", "drum"}, score |-> 500],
       [label |-> {"kick"}, score |-> 400], [label |-> {"hihat"}, score |-> 600]>>}

\* the classifier call: it throws or rejects, or resolves to a list of results
ClassifierOutcomes ==
    {[called |-> TRUE, threw |-> TRUE, results |-> <<>>]}
        \cup {[called |-> TRUE, threw |-> FALSE, results |-> r] : r \in ResultChoices}

NoOutcome == [called |-> FALSE, threw |-> FALSE, results |-> <<>>]

\* for (const prediction of results): features.x = Math.max(features.x, score)
RECURSIVE ModelScores(_)
ModelScores(results) ==
    IF results = <<>> THEN ZeroFeatures
    ELSE LET before == ModelScores(SubSeq(results, 1, Len(results) - 1))
             prediction == results[Len(results)]
         IN [f \in FeatureNames |->
                IF LabelMatches(prediction.label, f)
                THEN Max(before[f], prediction.score) ELSE before[f]]

\* processMLModelResults taking the classifier's scores only when all of them
\* are confident
ProcessMLModelResultsAllOrNothing(results, traditional) ==
    LET scored == ModelScores(results)
        confident == \A f \in {"kick", "snare", "hihat", "bass", "energy"} : scored[f] > 300
        features == [f \in FeatureNames |->
                        IF f \in {"mids", "treble"} \/ ~confident THEN traditional[f]
                        ELSE scored[f]]
    IN [features EXCEPT !["rhythm"] = CalculateRhythm(features["kick"], features["snare"])]

\* processMLModelResults(results, frequencyData): the features returned;
\* traditional = performBasicAnalysis(frequencyData)
ProcessMLModelResults(results, traditional) ==
    LET scored == ModelScores(results)
        features == [f \in FeatureNames |->
                        IF f \in {"mids", "treble"} THEN traditional[f]
                        ELSE IF scored[f] > 300 THEN scored[f] ELSE traditional[f]]
    IN [features EXCEPT !["rhythm"] = CalculateRhythm(features["kick"], features["snare"])]

\* getAudioFeatures without the catch around the classifier call
GetAudioFeaturesUncaught(outcome, raw, last) ==
    LET traditional == PerformBasicAnalysis(raw, last)
    IN IF outcome.threw
       THEN [promise |-> "rejected", features |-> ZeroFeatures, lastFeatures |-> last]
       ELSE [promise |-> "resolved",
             features |-> ProcessMLModelResults(outcome.results, traditional),
             lastFeatures |-> traditional]

\* getAudioFeatures from the await on: what its promise settles to, and the
\* lastFeatures performBasicAnalysis leaves
GetAudioFeaturesResumed(outcome, raw, last) ==
    LET traditional == PerformBasicAnalysis(raw, last)
    IN [promise |-> "resolved",
        features |-> IF outcome.threw THEN traditional
                     ELSE ProcessMLModelResults(outcome.results, traditional),
        lastFeatures |-> traditional]

(***************************************************************************)
(* EssentiaAudioProcessor.                                                 *)
(***************************************************************************)
\* the ranges of analyzeFrequencyBands
essentiaRanges == [bands EXCEPT !["kick"] = [min |-> 40, max |-> 100],
                                !["snare"] = [min |-> 200, max |-> 500],
                                !["hihat"] = [min |-> 8000, max |-> 12000]]

\* the thresholds of analyzeFrequencyBands
essentiaThresholds == [kick |-> 100, snare |-> 150, hihat |-> 120]

\* calculateBandEnergy(frequencyData, minFreq, maxFreq, rate, binCount)
CalculateBandEnergy(frequencyData, minFreq, maxFreq, rate, binCount) ==
    LET minBin == BinOf(minFreq, rate, binCount)
        maxBin == CeilBinOf(maxFreq, rate, binCount)
        validMinBin == Max(0, minBin)
        validMaxBin == Min(binCount - 1, maxBin)
    IN IF validMaxBin <= validMinBin THEN 0
       ELSE Floor(SumRange(frequencyData, validMinBin, validMaxBin) * 1000,
                  255 * (validMaxBin - validMinBin + 1))

\* the band energies and the total energy analyzeFrequencyBands computes
BandEnergies(rate, frame) ==
    LET frequencyData == ByteFrequencyData(rate, frame)
    IN [f \in BandNames \cup {"total"} |->
           IF f = "total"
           THEN Floor(SumRange(frequencyData, 0, Len(frequencyData) - 1) * 1000,
                      255 * Len(frequencyData))
           ELSE CalculateBandEnergy(frequencyData, essentiaRanges[f].min,
                                    essentiaRanges[f].max, rate, frequencyBinCount)]

\* the band energies, evaluated once per sample rate and spectrum
BandEnergiesOf ==
    [rate \in SampleRates |-> [frame \in Frames |-> BandEnergies(rate, frame)]]

\* alpha * (e > threshold ? e * 2 : 0) + (1 - alpha) * accumulator, alpha = 0.4
Accumulate(energy, threshold, accumulator) ==
    Floor(4 * (IF energy > threshold THEN energy * 2 ELSE 0) + 6 * accumulator, 10)

\* analyzeFrequencyBands: the new kickEnergy, snareEnergy, hihatEnergy
AnalyzedEnergies(energy, acc) ==
    [p \in {"kick", "snare", "hihat"} |-> Accumulate(energy[p], essentiaThresholds[p], acc[p])]

\* analyzeFrequencyBands: the new lastFeatures
AnalyzedFeatures(energy, acc) ==
    LET new == AnalyzedEnergies(energy, acc)
    IN [f \in FeatureNames |->
           CASE f \in {"kick", "snare", "hihat"} -> Min(1000, new[f] * 4)
             [] f = "energy" -> Min(1000, energy["total"] * 3)
             [] f = "rhythm" -> Min(1000, (new["kick"] + new["snare"]) * 3)
             [] OTHER -> Min(1000, energy[f] * 3)]

(***************************************************************************)
(* MeydaAudioProcessor.                                                    *)
(***************************************************************************)
\* this.thresholds (energies and rates in thousandths, frequencies in Hz)
thresholds == [kickEnergy |-> 700, kickSpecCentroid |-> 200, snareZcr |-> 300,
               snareSpecFlatness |-> 200, hihatSpecRolloff |-> 700]

\* what Meyda hands the callback: nothing, or a features object
NoMeydaFeatures ==
    [present |-> FALSE, energy |-> 0, spectralCentroid |-> 0, spectralFlatness |-> 0,
     spectralRolloff |-> 0, zcr |-> 0, loudness |-> 0]

MeydaFeatures ==
    {NoMeydaFeatures,
     [NoMeydaFeatures EXCEPT !.present = TRUE],
     [NoMeydaFeatures EXCEPT !.present = TRUE, !.energy = 900, !.spectralCentroid = 100,
                             !.loudness = 12000],
     [NoMeydaFeatures EXCEPT !.present = TRUE, !.energy = 400, !.spectralCentroid = 1000,
                             !.spectralFlatness = 300, !.zcr = 500],
     [NoMeydaFeatures EXCEPT !.present = TRUE, !.energy = 200, !.spectralCentroid = 5000,
                             !.spectralRolloff = 9000],
     [NoMeydaFeatures EXCEPT !.present = TRUE, !.energy = 900, !.spectralCentroid = 100,
                             !.spectralRolloff = 9000]}

(***************************************************************************)
(* The transport of the extractors.  Times are in ticks of the audio clock. *)
(* AudioProcessor and MLAudioProcessor play an AudioBufferSourceNode,       *)
(* EssentiaAudioProcessor and MeydaAudioProcessor an audio element.         *)
(***************************************************************************)
ElementBacked(b) == b \in {"essentia", "meyda"}

\* stop()
StopOp(b, loaded, t) ==
    IF ElementBacked(b)
    THEN [t EXCEPT !.isPlaying = FALSE, !.pauseTime = 0,
                   !.elementTime = IF loaded THEN 0 ELSE @]
    ELSE [t EXCEPT !.isPlaying = FALSE]

\* play(): returns at once when nothing is loaded
PlayOp(b, loaded, now, t) ==
    IF ~loaded THEN t
    ELSE LET halted == IF ElementBacked(b) THEN t ELSE StopOp(b, loaded, t)
             offset == IF halted.pauseTime > 0 THEN halted.pauseTime ELSE 0
         IN [halted EXCEPT !.startTime = now - offset, !.isPlaying = TRUE,
                            !.startedAt = offset,
                            !.elementTime = IF ElementBacked(b) THEN offset ELSE @]

\* a pause that does not record the position
PauseOpForgetful(b, loaded, now, t) == StopOp("basic", loaded, t)

\* pause(): returns at once when not playing
PauseOp(b, loaded, now, t) ==
    IF ~t.isPlaying \/ (ElementBacked(b) /\ ~loaded) THEN t
    ELSE IF ElementBacked(b)
    THEN [t EXCEPT !.pauseTime = t.elementTime, !.isPlaying = FALSE]
    ELSE StopOp(b, loaded, [t EXCEPT !.pauseTime = now - t.startTime])

\* seekTo(time) of MLAudioProcessor, EssentiaAudioProcessor, MeydaAudioProcessor
SeekToOp(b, loaded, now, time, t) ==
    IF ~loaded THEN t
    ELSE IF ElementBacked(b)
    THEN [t EXCEPT !.elementTime = time, !.pauseTime = time,
                   !.startTime = IF t.isPlaying THEN now - time ELSE @]
    ELSE LET halted == [StopOp(b, loaded, t) EXCEPT !.pauseTime = time]
         IN IF halted.isPlaying THEN PlayOp(b, loaded, now, halted) ELSE halted

\* getCurrentTime()
GetCurrentTime(b, loaded, now, t) ==
    IF ElementBacked(b)
    THEN IF ~loaded THEN t.pauseTime ELSE t.elementTime
    ELSE IF ~t.isPlaying THEN t.pauseTime ELSE now - t.startTime

\* the positions a seek goes to
SeekChoices == {0, 2, 3}

\* the runs explored: a short one on any input with one load of the model, a
\* long one of drum hits (kick with hi-hat) and frames without a detection,
\* and one of loads of the model in which no features are asked for
AudioRuns ==
    {[kind |-> "short", ticks |-> MaxCalls, features |-> MeydaFeatures, loads |-> 1],
     [kind |-> "long", ticks |-> MaxTicks,
      features |-> {f \in MeydaFeatures :
                        /\ f.present /\ f.zcr = 0
                        /\ (f.energy = 900 /\ f.spectralRolloff = 9000) \/ f.energy = 0},
      loads |-> 1],
     [kind |-> "loading", ticks |-> 0, features |-> MeydaFeatures, loads |-> MaxLoads]}

ZeroMemory == [kickCount |-> 0, snareCount |-> 0, hihatCount |-> 0]

\* mapRange(value, inMin, inMax, outMin, outMax), the output in thousandths
MapRange(value, inMin, inMax, outMin, outMax) ==
    LET mapped == Floor((value - inMin) * (outMax - outMin), inMax - inMin) + outMin
    IN Max(outMin, Min(outMax, mapped))

\* Math.min(8, count + 3) without the cap
RememberUncapped(detected, count) == IF detected THEN count + 3 ELSE Max(0, count - 1)

\* a memory that loses two counts on a callback without a detection
RememberFastDecay(detected, count) == IF detected THEN Min(8, count + 3) ELSE Max(0, count - 2)

\* Math.min(8, count + 3) on a detection, Math.max(0, count - 1) otherwise
Remember(detected, count) == IF detected THEN Min(8, count + 3) ELSE Max(0, count - 1)

\* processFeatures: isKick, isSnare, isHihat
Detections(features) ==
    [present |-> features.present,
     kick |-> /\ features.spectralCentroid < thresholds.kickSpecCentroid
              /\ features.energy > thresholds.kickEnergy,
     snare |-> /\ features.zcr > thresholds.snareZcr
               /\ features.spectralFlatness > thresholds.snareSpecFlatness,
     hihat |-> features.spectralRolloff > thresholds.hihatSpecRolloff]

\* the counter of the memory kept for a percussive feature
CounterOf(mem, p) ==
    CASE p = "kick" -> mem.kickCount [] p = "snare" -> mem.snareCount
      [] p = "hihat" -> mem.hihatCount

\* processFeatures: the new memory
ProcessedMemory(features, mem) ==
    LET is == Detections(features)
    IN [kickCount |-> Remember(is.kick, mem.kickCount),
        snareCount |-> Remember(is.snare, mem.snareCount),
        hihatCount |-> Remember(is.hihat, mem.hihatCount)]

\* processFeatures: the new lastFeatures
ProcessedFeatures(features, mem) ==
    LET new == ProcessedMemory(features, mem)
        level == IF features.loudness # 0 THEN features.loudness ELSE features.energy
    IN [f \in FeatureNames |->
           CASE f = "kick" -> Floor(new.kickCount * 1000, 8)
             [] f = "snare" -> Floor(new.snareCount * 1000, 8)
             [] f = "hihat" -> Floor(new.hihatCount * 1000, 8)
             [] f = "bass" -> MapRange(features.spectralCentroid, 0, 500, 1000, 0)
             [] f = "mids" -> MapRange(features.spectralCentroid, 200, 2000, 0, 1000)
             [] f = "treble" -> MapRange(features.spectralCentroid, 2000, 8000, 0, 1000)
             [] f = "energy" -> MapRange(level, 0, 10000, 0, 1000)
             [] f = "rhythm" -> Floor(new.kickCount * 600 + new.snareCount * 400, 8)]

(***************************************************************************)
(* State of the extractor in use.                                          *)
(***************************************************************************)
VARIABLES
    \* which extractor the application uses and the rate of its AudioContext
    backend, sampleRate,
    \* audioBuffer / audioElement present; isPlaying; the Meyda analyzer started
    audioLoaded, isPlaying, analyzerStarted,
    \* the spectrum last read from the analyser
    analyserData,
    \* smoothing state: lastFeatures (ml, essentia, meyda); kickEnergy,
    \* snareEnergy, hihatEnergy (essentia); memory (meyda)
    lastFeatures, percussionEnergy, memory,
    \* the vector the last getAudioFeatures call returned; getAudioFeatures
    \* calls, analyses and classifier settlements made so far
    returned, calls,
    \* MLAudioProcessor: isModelLoaded, isLoadingModel; the readings of the
    \* getAudioFeatures calls awaiting the classifier; the frame, the classifier
    \* outcome and the promise state of the call that settled last
    isModelLoaded, isLoadingModel, pending, classified,
    \* MeydaAudioProcessor: what the last analyzer callback detected; for each
    \* percussive feature the callbacks since the one that detected it last and
    \* the counter that one left
    detected, sinceDetection, lastPeak,
    \* the run explored: how many analyzer callbacks and what they deliver
    audioRun,
    \* the transport: audioContext.currentTime; startTime, pauseTime;
    \* audioElement.currentTime (essentia, meyda); the offset play() last
    \* started the source or the element at
    contextTime, startTime, pauseTime, elementTime, startedAt,
    \* MLAudioProcessor: modelInitPromise (the number of the load it belongs to, 0
    \* when null), the loads in flight, what the last initModel() call returned
    modelInitPromise, loads, initReturned,
    \* AudioAnalyzer: the isPlaying state of the component; animationRef.current
    \* (0 when null); the animation frames requested and not yet run or
    \* cancelled; updatePlayback() was called and has not run yet
    uiPlaying, animationRef, requested, due

audioVars == <<backend, sampleRate, audioLoaded, isPlaying, analyzerStarted, analyserData,
               lastFeatures, percussionEnergy, memory, returned, calls,
               isModelLoaded, isLoadingModel, pending, classified, detected, sinceDetection,
               lastPeak, audioRun, contextTime, startTime, pauseTime, elementTime, startedAt,
               modelInitPromise, loads, initReturned, uiPlaying, animationRef, requested, due>>

classifierVars == <<isModelLoaded, isLoadingModel, pending, classified>>

detectorVars == <<detected, sinceDetection, lastPeak, audioRun>>

transportVars == <<contextTime, startTime, pauseTime, elementTime, startedAt>>

loaderVars == <<modelInitPromise, loads, initReturned>>

analyzerVars == <<uiPlaying, animationRef, requested, due>>

Transport ==
    [isPlaying |-> isPlaying, startTime |-> startTime, pauseTime |-> pauseTime,
     elementTime |-> elementTime, startedAt |-> startedAt]

SetTransport(t) ==
    /\ isPlaying' = t.isPlaying
    /\ startTime' = t.startTime
    /\ pauseTime' = t.pauseTime
    /\ elementTime' = t.elementTime
    /\ startedAt' = t.startedAt

Percussive == {"kick", "snare", "hihat"}

\* the spectra a reading of the analyser can give
Reading == IF isPlaying THEN Frames ELSE Residual(analyserData)

InitAudio ==
    /\ backend \in Backends
    /\ sampleRate \in SampleRates
    /\ audioLoaded = FALSE /\ isPlaying = FALSE /\ analyzerStarted = FALSE
    /\ analyserData = SilentFrame
    /\ lastFeatures = ZeroFeatures
    /\ percussionEnergy = [kick |-> 0, snare |-> 0, hihat |-> 0]
    /\ memory = ZeroMemory
    /\ returned = ZeroFeatures
    /\ calls = 0
    /\ isModelLoaded = FALSE /\ isLoadingModel = FALSE
    /\ pending = <<>>
    /\ classified = [frame |-> SilentFrame, outcome |-> NoOutcome, promise |-> "none"]
    /\ detected = Detections(NoMeydaFeatures)
    /\ sinceDetection = [p \in Percussive |-> 0]
    /\ lastPeak = [p \in Percussive |-> 0]
    /\ audioRun \in {run \in AudioRuns : \/ run.kind = "short"
                                          \/ (run.kind = "long" /\ backend = "meyda")
                                          \/ (run.kind = "loading" /\ backend = "ml")}
    /\ modelInitPromise = 0 /\ loads = {} /\ initReturned = [kind |-> "none", load |-> 0]
    /\ uiPlaying = FALSE /\ animationRef = 0 /\ requested = {} /\ due = FALSE
    /\ contextTime = 0 /\ startTime = 0 /\ pauseTime = 0 /\ elementTime = 0 /\ startedAt = 0

(***************************************************************************)
(* Actions of the frame pipeline.                                          *)
(***************************************************************************)
InitVideo ==
    /\ canvas = FALSE /\ ctx = FALSE /\ video = FALSE
    /\ config = [mappings |-> ResetMappings]
    /\ isProcessing = FALSE
    /\ animationFrameId = 0
    /\ frameHistory = <<>>
    /\ lastAudioFeatures = ZeroFeatures
    /\ scheduled = {} /\ nextId = 1 /\ display = Blank
    /\ frameIn = [displacementMap |-> "black", timeMachineMap |-> "black", random |-> "low"]
    /\ chain = <<>>
    /\ captured = 0 /\ sinceStart = 0 /\ stopped = FALSE /\ starts = 0 /\ updates = 0
    /\ budget \in Budgets
    /\ audioFeaturesRef = ZeroFeatures /\ isPlayingRef = FALSE

\* setupCanvas(canvas, video); canvas.getContext('2d') may return null
SetupCanvas ==
    /\ \E got \in BOOLEAN : ctx' = got
    /\ canvas' = TRUE /\ video' = TRUE
    /\ UNCHANGED <<config, isProcessing, animationFrameId, frameHistory, lastAudioFeatures,
                   scheduled, nextId, display, frameIn, chain, captured, sinceStart, stopped,
                   starts, updates, budget>>
    /\ UNCHANGED supplierVars
    /\ UNCHANGED audioVars

\* resetConfig()
ResetConfig ==
    /\ updates < budget.updates
    /\ config' = [mappings |-> ResetMappings]
    /\ updates' = updates + 1
    /\ UNCHANGED <<canvas, ctx, video, isProcessing, animationFrameId, frameHistory,
                   lastAudioFeatures, scheduled, nextId, display, frameIn, chain, captured,
                   sinceStart, stopped, starts, budget>>
    /\ UNCHANGED supplierVars
    /\ UNCHANGED audioVars

\* updateMapping(index, updates)
UpdateMapping ==
    /\ updates < budget.updates
    /\ \E index \in IndexChoices, upd \in UpdateChoices :
           config' = [mappings |-> UpdatedMappings(config.mappings, index, upd)]
    /\ updates' = updates + 1
    /\ UNCHANGED <<canvas, ctx, video, isProcessing, animationFrameId, frameHistory,
                   lastAudioFeatures, scheduled, nextId, display, frameIn, chain, captured,
                   sinceStart, stopped, starts, budget>>
    /\ UNCHANGED supplierVars
    /\ UNCHANGED audioVars

\* startProcessing(getAudioFeatures), called between frames
StartProcessing ==
    /\ isProcessing \/ starts < budget.starts
    /\ SetLoop(StartProcessingOp(Loop))
    /\ UNCHANGED <<canvas, ctx, video, config, lastAudioFeatures, display, frameIn, chain,
                   captured, updates, budget>>
    /\ UNCHANGED supplierVars
    /\ UNCHANGED audioVars

\* stopProcessing(), called between frames
StopProcessing ==
    /\ SetLoop(StopProcessingOp(Loop))
    /\ UNCHANGED <<canvas, ctx, video, config, lastAudioFeatures, display, frameIn, chain,
                   captured, updates, budget>>
    /\ UNCHANGED supplierVars
    /\ UNCHANGED audioVars

\* render, run by the browser, finding the surface or the source missing
RenderUnavailable ==
    /\ scheduled # {}
    /\ ~Available
    /\ SetLoop(RenderUnavailableOp([Loop EXCEPT !.scheduled = @ \ {NextCallback}]))
    /\ UNCHANGED <<canvas, ctx, video, config, lastAudioFeatures, display, frameIn, chain,
                   captured, updates, budget>>
    /\ UNCHANGED supplierVars
    /\ UNCHANGED audioVars

\* render, run by the browser: one frame
RenderFrame ==
    /\ scheduled # {}
    /\ Available
    /\ captured < budget.frames
    /\ \E inputs \in FrameInputs, how \in ReentryChoices :
         LET running == [Loop EXCEPT !.scheduled = @ \ {NextCallback}]
             features == Supplier(audioFeaturesRef, isPlayingRef)
             supplied == Reenter(how, running)
             currentFrame == VideoFrame(captured)
             history == PushHistory(supplied.frameHistory, currentFrame)
             steps == EffectChain(SortMappings(EnabledMappings(config.mappings)),
                                  currentFrame, features, history, inputs)
         IN /\ how # "none" => budget.reentrant
            /\ supplied.starts <= budget.starts
            /\ lastAudioFeatures' = features
            /\ frameIn' = inputs
            /\ chain' = steps
            /\ display' = PutImageData(display, FinalImage(steps, currentFrame), 0, 0)
            /\ captured' = captured + 1
            /\ SetLoop(RequestFrame(
                   [supplied EXCEPT !.frameHistory =
                                        [history EXCEPT ![1] = StoredFrame(steps, currentFrame)],
                                    !.sinceStart = @ + 1]))
    /\ UNCHANGED <<canvas, ctx, video, config, updates, budget>>
    /\ UNCHANGED supplierVars
    /\ UNCHANGED audioVars

\* VideoPreview: useEffect(() => { audioFeaturesRef.current = audioFeatures },
\* [audioFeatures]), run when the analysis loop has published a new vector
PublishFeatures ==
    /\ \E published \in FeatureChoices \ {audioFeaturesRef} : audioFeaturesRef' = published
    /\ UNCHANGED <<canvas, ctx, video, config, isProcessing, animationFrameId, frameHistory,
                   lastAudioFeatures, scheduled, nextId, display, frameIn, chain, captured,
                   sinceStart, stopped, starts, updates, budget, isPlayingRef>>
    /\ UNCHANGED audioVars

\* VideoPreview: useEffect(() => { isPlayingRef.current = isAudioPlaying },
\* [isAudioPlaying])
SetAudioPlaying ==
    /\ isPlayingRef' = ~isPlayingRef
    /\ UNCHANGED <<canvas, ctx, video, config, isProcessing, animationFrameId, frameHistory,
                   lastAudioFeatures, scheduled, nextId, display, frameIn, chain, captured,
                   sinceStart, stopped, starts, updates, budget, audioFeaturesRef>>
    /\ UNCHANGED audioVars

NextVideo ==
    \/ SetupCanvas
    \/ ResetConfig
    \/ UpdateMapping
    \/ StartProcessing
    \/ StopProcessing
    \/ RenderUnavailable
    \/ RenderFrame
    \/ PublishFeatures
    \/ SetAudioPlaying

(***************************************************************************)
(* Actions of the extractors.                                              *)
(***************************************************************************)
\* the fields initModel() works on
Loader ==
    [isModelLoaded |-> isModelLoaded, isLoadingModel |-> isLoadingModel,
     modelInitPromise |-> modelInitPromise, loads |-> loads, initReturned |-> initReturned]

SetLoader(m) ==
    /\ isModelLoaded' = m.isModelLoaded
    /\ isLoadingModel' = m.isLoadingModel
    /\ modelInitPromise' = m.modelInitPromise
    /\ loads' = m.loads
    /\ initReturned' = m.initReturned

\* a new load: isLoadingModel = true, modelInitPromise = new Promise(...)
StartLoad(m) ==
    LET load == m.modelInitPromise + 1
    IN [m EXCEPT !.isLoadingModel = TRUE, !.modelInitPromise = load, !.loads = @ \cup {load},
                 !.initReturned = [kind |-> "promise", load |-> load]]

\* initModel() without the test of isLoadingModel
InitModelOpUnguarded(m) ==
    IF m.isModelLoaded THEN [m EXCEPT !.initReturned = [kind |-> "true", load |-> 0]]
    ELSE StartLoad(m)

\* initModel() up to its first await: true when the model is loaded, the
\* promise of the load in flight when there is one, a new load otherwise
InitModelOp(m) ==
    IF m.isModelLoaded THEN [m EXCEPT !.initReturned = [kind |-> "true", load |-> 0]]
    ELSE IF m.isLoadingModel
    THEN [m EXCEPT !.initReturned = [kind |-> "promise", load |-> m.modelInitPromise]]
    ELSE StartLoad(m)

\* loadAudio(file), the first file loaded; MLAudioProcessor calls initModel()
LoadAudio ==
    /\ ~audioLoaded
    /\ audioLoaded' = TRUE
    /\ IF backend = "ml"
       THEN /\ InitModelOp(Loader).modelInitPromise <= audioRun.loads
            /\ SetLoader(InitModelOp(Loader))
       ELSE UNCHANGED <<isModelLoaded, isLoadingModel, modelInitPromise, loads, initReturned>>
    /\ UNCHANGED <<backend, sampleRate, isPlaying, analyzerStarted, analyserData,
                   lastFeatures, percussionEnergy, memory, returned, calls>>
    /\ UNCHANGED <<pending, classified>>
    /\ UNCHANGED detectorVars
    /\ UNCHANGED transportVars
    /\ UNCHANGED analyzerVars
    /\ UNCHANGED videoVars

\* play()
PlayCall ==
    /\ SetTransport(PlayOp(backend, audioLoaded, contextTime, Transport))
    /\ analyzerStarted' = IF backend = "meyda" /\ audioLoaded THEN TRUE ELSE analyzerStarted
    /\ UNCHANGED <<backend, sampleRate, audioLoaded, analyserData, lastFeatures,
                   percussionEnergy, memory, returned, calls, contextTime>>
    /\ UNCHANGED classifierVars
    /\ UNCHANGED detectorVars
    /\ UNCHANGED loaderVars
    /\ UNCHANGED videoVars

\* play() made by any other caller than the analyzer component
Play == PlayCall /\ UNCHANGED analyzerVars

\* pause()
PauseCall ==
    /\ SetTransport(PauseOp(backend, audioLoaded, contextTime, Transport))
    /\ analyzerStarted' = IF isPlaying THEN FALSE ELSE analyzerStarted
    /\ UNCHANGED <<backend, sampleRate, audioLoaded, analyserData, lastFeatures,
                   percussionEnergy, memory, returned, calls, contextTime>>
    /\ UNCHANGED classifierVars
    /\ UNCHANGED detectorVars
    /\ UNCHANGED loaderVars
    /\ UNCHANGED videoVars

\* pause() made by any other caller than the analyzer component
Pause == PauseCall /\ UNCHANGED analyzerVars

\* stop()
Stop ==
    /\ SetTransport(StopOp(backend, audioLoaded, Transport))
    /\ analyzerStarted' = FALSE
    /\ UNCHANGED <<backend, sampleRate, audioLoaded, analyserData, lastFeatures,
                   percussionEnergy, memory, returned, calls, contextTime>>
    /\ UNCHANGED classifierVars
    /\ UNCHANGED detectorVars
    /\ UNCHANGED loaderVars
    /\ UNCHANGED analyzerVars
    /\ UNCHANGED videoVars

\* seekTo(time); AudioProcessor has no such method
SeekTo ==
    /\ backend # "basic"
    /\ \E time \in SeekChoices :
          SetTransport(SeekToOp(backend, audioLoaded, contextTime, time, Transport))
    /\ UNCHANGED <<backend, sampleRate, audioLoaded, analyzerStarted, analyserData, lastFeatures,
                   percussionEnergy, memory, returned, calls, contextTime>>
    /\ UNCHANGED classifierVars
    /\ UNCHANGED detectorVars
    /\ UNCHANGED loaderVars
    /\ UNCHANGED analyzerVars
    /\ UNCHANGED videoVars

\* the audio clock advances by one tick, and with it a playing audio element
ClockAdvances ==
    /\ contextTime < MaxClock
    /\ contextTime' = contextTime + 1
    /\ elementTime' = IF ElementBacked(backend) /\ isPlaying THEN elementTime + 1
                      ELSE elementTime
    /\ UNCHANGED <<backend, sampleRate, audioLoaded, isPlaying, analyzerStarted, analyserData,
                   lastFeatures, percussionEnergy, memory, returned, calls, startTime,
                   pauseTime, startedAt>>
    /\ UNCHANGED classifierVars
    /\ UNCHANGED detectorVars
    /\ UNCHANGED loaderVars
    /\ UNCHANGED analyzerVars
    /\ UNCHANGED videoVars

\* EssentiaAudioProcessor: onaudioprocess -> processAudioData -> analyzeFrequencyBands
ProcessAudioData ==
    /\ backend = "essentia" /\ audioLoaded
    /\ calls < MaxCalls
    /\ \E frame \in Reading :
         LET energy == BandEnergiesOf[sampleRate][frame]
         IN /\ analyserData' = frame
            /\ percussionEnergy' = AnalyzedEnergies(energy, percussionEnergy)
            /\ lastFeatures' = AnalyzedFeatures(energy, percussionEnergy)
    /\ calls' = calls + 1
    /\ UNCHANGED <<backend, sampleRate, audioLoaded, isPlaying, analyzerStarted, memory,
                   returned>>
    /\ UNCHANGED classifierVars
    /\ UNCHANGED detectorVars
    /\ UNCHANGED transportVars
    /\ UNCHANGED loaderVars
    /\ UNCHANGED analyzerVars
    /\ UNCHANGED videoVars

\* MeydaAudioProcessor: the analyzer's callback, processFeatures(features)
ProcessFeatures ==
    /\ backend = "meyda" /\ analyzerStarted
    /\ calls < audioRun.ticks
    /\ \E features \in audioRun.features :
         /\ detected' = Detections(features)
         /\ IF features.present
            THEN /\ memory' = ProcessedMemory(features, memory)
                 /\ lastFeatures' = ProcessedFeatures(features, memory)
                 /\ sinceDetection' =
                        [p \in Percussive |->
                            IF Detections(features)[p] THEN 0 ELSE Min(sinceDetection[p] + 1, 9)]
                 /\ lastPeak' = [p \in Percussive |->
                                IF Detections(features)[p]
                                THEN CounterOf(ProcessedMemory(features, memory), p)
                                ELSE lastPeak[p]]
            ELSE UNCHANGED <<memory, lastFeatures, sinceDetection, lastPeak>>
    /\ audioRun' = audioRun
    /\ calls' = calls + 1
    /\ UNCHANGED <<backend, sampleRate, audioLoaded, isPlaying, analyzerStarted, analyserData,
                   percussionEnergy, returned>>
    /\ UNCHANGED classifierVars
    /\ UNCHANGED transportVars
    /\ UNCHANGED loaderVars
    /\ UNCHANGED analyzerVars
    /\ UNCHANGED videoVars

\* getAudioFeatures() of the extractor in use
GetAudioFeaturesCall ==
    /\ calls < MaxCalls /\ calls < audioRun.ticks
    /\ \/ /\ backend = "basic"
          /\ \E frame \in Reading :
               /\ analyserData' = frame
               /\ returned' = ExtractedFeatures[sampleRate][frame]
          /\ UNCHANGED <<lastFeatures, pending>>
       \/ /\ backend = "ml" /\ ~isPlaying
          /\ returned' = ZeroFeatures
          /\ UNCHANGED <<analyserData, lastFeatures, pending>>
       \/ /\ backend = "ml" /\ isPlaying /\ ~isModelLoaded
          /\ \E frame \in Reading :
               LET features == PerformBasicAnalysis(RawFeaturesOf[sampleRate][frame],
                                                    lastFeatures)
               IN /\ analyserData' = frame
                  /\ lastFeatures' = features
                  /\ returned' = features
          /\ UNCHANGED pending
       \/ /\ backend = "ml" /\ isPlaying /\ isModelLoaded
          /\ Len(pending) < MaxPending
          /\ \E frame \in Reading :
               /\ analyserData' = frame
               /\ pending' = Append(pending, frame)
          /\ UNCHANGED <<lastFeatures, returned>>
       \/ /\ backend \in {"essentia", "meyda"}
          /\ returned' = lastFeatures
          /\ UNCHANGED <<analyserData, lastFeatures, pending>>
    /\ calls' = calls + 1
    /\ UNCHANGED <<backend, sampleRate, audioLoaded, isPlaying, analyzerStarted,
                   percussionEnergy, memory>>
    /\ UNCHANGED <<isModelLoaded, isLoadingModel, classified>>
    /\ UNCHANGED detectorVars
    /\ UNCHANGED transportVars
    /\ UNCHANGED loaderVars
    /\ UNCHANGED videoVars

\* getAudioFeatures() made by any other caller than the analyzer component
GetAudioFeatures == GetAudioFeaturesCall /\ UNCHANGED analyzerVars

\* MLAudioProcessor.initModel(), called by the analyzer component
InitModel ==
    /\ backend = "ml"
    /\ InitModelOp(Loader).modelInitPromise <= audioRun.loads
    /\ SetLoader(InitModelOp(Loader))
    /\ UNCHANGED <<backend, sampleRate, audioLoaded, isPlaying, analyzerStarted, analyserData,
                   lastFeatures, percussionEnergy, memory, returned, calls>>
    /\ UNCHANGED <<pending, classified>>
    /\ UNCHANGED detectorVars
    /\ UNCHANGED transportVars
    /\ UNCHANGED analyzerVars
    /\ UNCHANGED videoVars

\* initModel() after its awaits: the pipeline was created, or both attempts
\* failed and mlModel is still null
PipelineSettled ==
    /\ ~due
    /\ \E load \in loads, created \in BOOLEAN :
          /\ loads' = loads \ {load}
          /\ isModelLoaded' = created
    /\ isLoadingModel' = FALSE
    /\ UNCHANGED <<modelInitPromise, initReturned>>
    /\ UNCHANGED <<backend, sampleRate, audioLoaded, isPlaying, analyzerStarted, analyserData,
                   lastFeatures, percussionEnergy, memory, returned, calls>>
    /\ UNCHANGED <<pending, classified>>
    /\ UNCHANGED detectorVars
    /\ UNCHANGED transportVars
    /\ UNCHANGED analyzerVars
    /\ UNCHANGED videoVars

\* getAudioFeatures() of MLAudioProcessor resumed after await this.mlModel(...)
ClassifierResumed ==
    /\ pending # <<>>
    /\ calls < MaxCalls
    /\ \E i \in 1..Len(pending), outcome \in ClassifierOutcomes :
         LET resumed == GetAudioFeaturesResumed(outcome, RawFeaturesOf[sampleRate][pending[i]],
                                                lastFeatures)
         IN /\ lastFeatures' = resumed.lastFeatures
            /\ returned' = resumed.features
            /\ classified' = [frame |-> pending[i], outcome |-> outcome,
                              promise |-> resumed.promise]
            /\ pending' = SubSeq(pending, 1, i - 1) \o SubSeq(pending, i + 1, Len(pending))
    /\ calls' = calls + 1
    /\ UNCHANGED <<backend, sampleRate, audioLoaded, isPlaying, analyzerStarted, analyserData,
                   percussionEnergy, memory>>
    /\ UNCHANGED <<isModelLoaded, isLoadingModel>>
    /\ UNCHANGED detectorVars
    /\ UNCHANGED transportVars
    /\ UNCHANGED loaderVars
    /\ UNCHANGED videoVars

\* the settlement made by any other caller than the analyzer component
ClassifierSettled == ClassifierResumed /\ UNCHANGED analyzerVars

NextAudio ==
    \/ LoadAudio
    \/ Play
    \/ Pause
    \/ Stop
    \/ ProcessAudioData
    \/ ProcessFeatures
    \/ GetAudioFeatures
    \/ InitModel
    \/ PipelineSettled
    \/ ClassifierSettled

vars == <<videoVars, audioVars>>

\* the frame pipeline, fed by a supplier of its own
Init == InitVideo /\ InitAudio /\ backend = "basic" /\ sampleRate = 44100

Next == NextVideo

Spec == Init /\ [][Next]_vars

\* the extractors, with the frame pipeline at rest
InitExtractors == InitAudio /\ InitVideo /\ budget.reentrant

SpecAudio == InitExtractors /\ [][NextAudio]_vars

\* the extractors, polled by the analyzer component on every animation frame
SpecAudioFair == SpecAudio /\ WF_vars(GetAudioFeatures)

\* the transport of the extractors while the audio clock runs
NextTransport ==
    \/ LoadAudio
    \/ Play
    \/ Pause
    \/ Stop
    \/ SeekTo
    \/ ClockAdvances

SpecTransport == InitExtractors /\ [][NextTransport]_vars

(***************************************************************************)
(* AudioAnalyzer: the play button and the updatePlayback loop.  A call of  *)
(* updatePlayback runs to its end or, with the ML extractor awaiting the   *)
(* classifier, to its await; nothing else runs before a call made by       *)
(* togglePlayback has done so.                                             *)
(***************************************************************************)
\* togglePlayback(); the controls are shown once a file is loaded
TogglePlayback ==
    /\ audioLoaded /\ ~due
    /\ backend # "meyda"
    /\ IF uiPlaying
       THEN /\ PauseCall
            /\ requested' = requested \ {animationRef}
            /\ animationRef' = 0
            /\ uiPlaying' = FALSE
            /\ due' = FALSE
       ELSE /\ PlayCall
            /\ uiPlaying' = TRUE
            /\ due' = TRUE
            /\ UNCHANGED <<animationRef, requested>>

\* updatePlayback(), called by togglePlayback or as an animation frame
\* callback, up to the await of the classifier or else to its end
UpdatePlayback ==
    /\ due \/ requested # {}
    /\ \E entry \in IF due THEN {0} ELSE requested :
         LET playbackState == [isPlaying |-> isPlaying]
             awaits == backend = "ml" /\ isPlaying /\ isModelLoaded
             left == requested \ {entry}
         IN /\ GetAudioFeaturesCall
            /\ due' = FALSE
            /\ IF awaits
               THEN requested' = left /\ UNCHANGED <<animationRef, uiPlaying>>
               ELSE IF playbackState.isPlaying
               THEN /\ requested' = left \cup {calls + 1}
                    /\ animationRef' = calls + 1
                    /\ uiPlaying' = uiPlaying
               ELSE /\ requested' = left
                    /\ uiPlaying' = FALSE
                    /\ animationRef' = animationRef

\* updatePlayback() resumed after await mlAudioProcessor.getAudioFeatures():
\* the playbackState it read before the await said isPlaying, or the
\* classifier would not have been called
FeaturesResolved ==
    /\ ~due
    /\ ClassifierResumed
    /\ requested' = requested \cup {calls + 1}
    /\ animationRef' = calls + 1
    /\ UNCHANGED <<uiPlaying, due>>

NextAnalyzer ==
    \/ LoadAudio
    \/ PipelineSettled
    \/ TogglePlayback
    \/ UpdatePlayback
    \/ FeaturesResolved

SpecAnalyzer == InitExtractors /\ [][NextAnalyzer]_vars

(***************************************************************************)
(* Properties of the frame pipeline.                                       *)
(***************************************************************************)
\* a frame callback captured a frame in this step
FrameRendered == captured' = captured + 1

TypesOf(seq) == [k \in 1..Len(seq) |-> seq[k].effectType]

\* the steps of the chain are linked: each takes the previous output, the
\* first one the raw captured frame
Linked(steps, raw) ==
    \A k \in 1..Len(steps) :
        steps[k].input = IF k = 1 THEN raw ELSE steps[k - 1].output

\* C1: frameHistory never holds more than maxHistoryLength frames; it holds
\* the min(n, 30) frames captured last of the n captured since startProcessing,
\* newest first, so the frames evicted are the oldest ones
HistoryHoldsNewest ==
    /\ Len(frameHistory) <= maxHistoryLength
    /\ Len(frameHistory) = Min(sinceStart, maxHistoryLength)
    /\ \A i \in 1..Len(frameHistory) : frameHistory[i] = VideoFrame(captured - i)

HistoryOverflowed == Len(frameHistory) = maxHistoryLength /\ sinceStart >= maxHistoryLength + 2

\* the enabled effect types of a mapping list, in effectOrder, each as often
\* as it is enabled: a function of how often each type occurs alone
RECURSIVE CanonicalTypes(_, _)
CanonicalTypes(mappings, k) ==
    IF k > Len(effectOrder) THEN <<>>
    ELSE LET n == Cardinality({i \in 1..Len(mappings) :
                     mappings[i].enabled /\ mappings[i].effectType = effectOrder[k]})
         IN [i \in 1..n |-> effectOrder[k]] \o CanonicalTypes(mappings, k + 1)

Swapped(mappings, i, j) == [mappings EXCEPT ![i] = mappings[j], ![j] = mappings[i]]

\* C2: the effect types a frame applies are the enabled ones in effectOrder,
\* whatever the order of config.mappings: exchanging any two mappings of the
\* list gives the same sequence of types
AppliedInEffectOrder ==
    [][FrameRendered =>
        /\ TypesOf(chain') = CanonicalTypes(config.mappings, 1)
        /\ \A i, j \in 1..Len(config.mappings) :
              TypesOf(SortMappings(EnabledMappings(Swapped(config.mappings, i, j))))
                  = TypesOf(chain')]_vars

ReorderedChain ==
    /\ Len(chain) >= 3
    /\ updates = 0
    /\ TypesOf(chain) # TypesOf(EnabledMappings(config.mappings))

\* C3: every effect of a frame works on the output of the one before it and
\* the canvas shows the last output; timeMachine works on the image it is
\* given: where it selects the current frame (history index 0) its output is
\* the pixel of its input image
ChainComposes ==
    [][FrameRendered =>
        /\ Linked(chain', VideoFrame(captured))
        /\ display' = PutImageData(display, FinalImage(chain', VideoFrame(captured)), 0, 0)
        /\ \A k \in 1..Len(chain') :
              chain'[k].effectType = "timeMachine" /\ chain'[k].applied =>
                  \A p \in Positions :
                      FrameIdx(frameIn'.timeMachineMap, frameHistory', chain'[k].featureValue,
                               chain'[k].intensity, p) = 0
                      => chain'[k].output[p] = [chain'[k].input[p] EXCEPT !.a = 255]]_vars

\* C4: an effect run with intensity 0 or with feature value 0 returns its input
ZeroIsNoOp ==
    \A k \in 1..Len(chain) :
        chain[k].intensity = 0 \/ chain[k].featureValue = 0
            => chain[k].output = chain[k].input

\* C5: once stopProcessing has returned, no frame callback is pending until
\* startProcessing is called again
StopLeavesNothingPending == stopped => scheduled = {}

\* C6: startProcessing with the render loop running starts no second loop and
\* keeps frameHistory; a second stopProcessing changes nothing
StartStopIdempotent ==
    [][/\ StartProcessing /\ scheduled # {} =>
              UNCHANGED <<isProcessing, animationFrameId, frameHistory, scheduled, nextId>>
       /\ StopProcessingOp(StopProcessingOp(Loop)) = StopProcessingOp(Loop)]_vars

\* C7: a frame callback that finds canvas, ctx or video missing clears
\* isProcessing, draws nothing, keeps frameHistory and config, requests no
\* callback; startProcessing then starts a new loop
UnavailableStopsLoop ==
    [][RenderUnavailable =>
        /\ ~isProcessing'
        /\ display' = display /\ frameHistory' = frameHistory /\ config' = config
        /\ scheduled' \subseteq scheduled /\ nextId' = nextId
        /\ LET restarted == StartProcessingOp([isProcessing |-> isProcessing',
                     animationFrameId |-> animationFrameId', frameHistory |-> frameHistory',
                     scheduled |-> scheduled', nextId |-> nextId', sinceStart |-> sinceStart',
                     stopped |-> stopped', starts |-> starts'])
           IN /\ restarted.isProcessing
              /\ restarted.scheduled = scheduled' \cup {nextId'}]_vars

SelfStopped ==
    /\ starts >= 1 /\ ~stopped /\ ~isProcessing
    /\ ~Available /\ scheduled = {}

\* C8: on a frame whose history holds fewer than 2 frames an enabled
\* timeMachine mapping passes its input on unchanged and the other enabled
\* effects are applied all the same; with 2 frames or more it is applied
TimeMachineWaitsForHistory ==
    [][FrameRendered =>
        /\ Len(chain') = Len(EnabledMappings(config.mappings))
        /\ Linked(chain', VideoFrame(captured))
        /\ \A k \in 1..Len(chain') :
              IF chain'[k].effectType = "timeMachine"
              THEN IF Len(frameHistory') < 2
                   THEN ~chain'[k].applied /\ chain'[k].output = chain'[k].input
                   ELSE /\ chain'[k].applied
                        /\ chain'[k].output =
                              ApplyTimeMachineEffect(chain'[k].input, frameIn'.timeMachineMap,
                                  frameHistory', chain'[k].featureValue, chain'[k].intensity)
              ELSE chain'[k].applied]_vars

TimeMachineSkippedOnFirstFrame ==
    /\ sinceStart = 1
    /\ \E k \in 1..(Len(chain) - 1) :
          /\ chain[k].effectType = "timeMachine" /\ ~chain[k].applied
          /\ chain[k + 1].applied /\ chain[k + 1].output # chain[k + 1].input

(***************************************************************************)
(* Properties of the extractors.                                           *)
(***************************************************************************)
\* C9: every field of the vector the band-energy extractors (AudioProcessor,
\* MLAudioProcessor without classifier) return lies in [0, 1]
FeaturesInUnitRange ==
    backend \in {"basic", "ml"} => \A f \in FeatureNames : returned[f] \in 0..1000

\* C10: getAudioFeatures called while nothing is playing returns the all-zero
\* vector and leaves lastFeatures, the energy accumulators and the memory
\* counters as they were
SilentWhenNotPlaying ==
    [][GetAudioFeatures /\ ~isPlaying =>
          /\ returned' = ZeroFeatures
          /\ UNCHANGED <<lastFeatures, percussionEnergy, memory>>]_vars

\* a band-energy analysis of a reading of the analyser: getAudioFeatures of
\* AudioProcessor, getAudioFeatures of MLAudioProcessor while playing with no
\* classifier loaded, onaudioprocess of EssentiaAudioProcessor
AnalysisTick ==
    \/ GetAudioFeatures /\ (backend = "basic" \/ (backend = "ml" /\ isPlaying /\ ~isModelLoaded))
    \/ ProcessAudioData

\* the vector an analysis produces: returned to the caller, or kept as
\* lastFeatures for the next getAudioFeatures
Analysed == IF backend = "essentia" THEN lastFeatures ELSE returned

\* C11: whatever the smoothing state before it, a band-energy analysis of a
\* spectrum with zero energy in every bin produces the all-zero vector, also
\* when it is the fallback of a failed classifier call
ZeroEnergyYieldsZeros ==
    [][/\ AnalysisTick /\ analyserData' = SilentFrame => Analysed' = ZeroFeatures
       /\ ClassifierSettled /\ classified'.outcome.threw /\ classified'.frame = SilentFrame
              => returned' = ZeroFeatures]_vars

\* the features the classifier scores
Classified == {"kick", "snare", "hihat", "bass", "energy"}

\* the classifier's score of a feature: the highest score among the results
\* whose label names the feature, 0 when none does
ScoreOf(results, f) ==
    LET matching == {results[i].score :
                        i \in {j \in 1..Len(results) : LabelMatches(results[j].label, f)}}
    IN IF matching = {} THEN 0 ELSE CHOOSE m \in matching : \A x \in matching : x <= m

\* C12: when the classifier returns results, kick, snare, hihat, bass and
\* energy each take their own classifier score if it exceeds 0.3 and their own
\* band-energy value otherwise; mids and treble take the band-energy value;
\* rhythm is computed from the kick and snare so obtained
FallbackPerFeature ==
    [][ClassifierSettled /\ ~classified'.outcome.threw =>
        LET traditional == PerformBasicAnalysis(RawFeaturesOf[sampleRate][classified'.frame],
                                                lastFeatures)
            results == classified'.outcome.results
        IN /\ \A f \in Classified :
                 returned'[f] = IF ScoreOf(results, f) > 300 THEN ScoreOf(results, f)
                                ELSE traditional[f]
           /\ \A f \in {"mids", "treble"} : returned'[f] = traditional[f]
           /\ returned'["rhythm"] = CalculateRhythm(returned'["kick"], returned'["snare"])]_vars

\* one feature took its score while another, scored low, took its band energy
MixedVector ==
    /\ classified.promise = "resolved" /\ ~classified.outcome.threw
    /\ \E f, g \in Classified :
          /\ ScoreOf(classified.outcome.results, f) > 300
          /\ returned[f] = ScoreOf(classified.outcome.results, f)
          /\ ScoreOf(classified.outcome.results, g) \in 1..300
          /\ returned[g] > 0
          /\ returned[g] # ScoreOf(classified.outcome.results, g)

\* performBasicAnalysis ran in this step: getAudioFeatures of MLAudioProcessor
\* while playing with no classifier loaded, or a settled classifier call
BandEnergyTick ==
    \/ GetAudioFeatures /\ backend = "ml" /\ isPlaying /\ ~isModelLoaded
    \/ ClassifierSettled

\* C13: the band-energy path of MLAudioProcessor reports kick, snare and hihat
\* as 0 when the smoothed band energy is at or below the feature's threshold
\* and as the smoothed band energy otherwise; the class has kickThreshold and
\* snareThreshold, and hihat is held to either of them
ThresholdPerPercussiveFeature ==
    [][BandEnergyTick =>
        LET frame == IF ClassifierSettled THEN classified'.frame ELSE analyserData'
            smoothed == [p \in {"kick", "snare", "hihat"} |->
                            SmoothValue(RawFeaturesOf[sampleRate][frame][p], lastFeatures[p])]
            Reported(p, threshold) ==
                lastFeatures'[p] = IF smoothed[p] > threshold THEN smoothed[p] ELSE 0
        IN /\ Reported("kick", kickThreshold)
           /\ Reported("snare", snareThreshold)
           /\ \E threshold \in {kickThreshold, snareThreshold} :
                 Reported("hihat", threshold)]_vars

\* every getAudioFeatures call so far was a band-energy analysis of
\* MLAudioProcessor that read the spectrum frame, on which the raw band energy
\* of percussive feature p is above threshold
SteadyAbove(frame, p, threshold) ==
    /\ RawFeaturesOf[sampleRate][frame][p] > threshold
    /\ calls = 0 \/ (backend = "ml" /\ isPlaying /\ ~isModelLoaded /\ analyserData = frame)

\* C14: from the all-zero smoothing state, with the same spectrum read on
\* every tick and a raw kick (snare) band energy above the threshold, the
\* reported kick (snare) becomes positive after finitely many ticks and stays
\* positive
SteadyInputBecomesActive ==
    \A frame \in Frames :
        /\ <>~SteadyAbove(frame, "kick", kickThreshold) \/ <>[](returned["kick"] > 0)
        /\ <>~SteadyAbove(frame, "snare", snareThreshold) \/ <>[](returned["snare"] > 0)

\* C15: the three memory counters stay integers in [0, 8]; an analyzer
\* callback sets each counter to min(8, c + 3) when its own feature was
\* detected and to max(0, c - 1) when it was not, whatever the other two did;
\* the reported feature is counter / 8 and rhythm = 0.6 * kick + 0.4 * snare
\* lies in [0, 1]
MemoryCountersBounded ==
    /\ [](\A p \in {"kick", "snare", "hihat"} : CounterOf(memory, p) \in 0..8)
    /\ [][ProcessFeatures /\ detected'.present =>
            /\ \A p \in {"kick", "snare", "hihat"} :
                  /\ CounterOf(memory', p) = IF detected'[p] THEN Min(8, CounterOf(memory, p) + 3)
                                             ELSE Max(0, CounterOf(memory, p) - 1)
                  /\ lastFeatures'[p] * 8 = CounterOf(memory', p) * 1000
            /\ lastFeatures'["rhythm"] * 10 =
                   6 * lastFeatures'["kick"] + 4 * lastFeatures'["snare"]
            /\ lastFeatures'["rhythm"] \in 0..1000]_vars

\* one counter at the cap while another has decayed to 0 and the third is in
\* between
CountersApart ==
    /\ backend = "meyda"
    /\ memory.kickCount = 8 /\ memory.snareCount = 0 /\ memory.hihatCount \in 1..7
    /\ lastFeatures["kick"] = 1000 /\ lastFeatures["rhythm"] = 600

(***************************************************************************)
(* Properties of the hand-over of feature vectors to the frame pipeline.   *)
(***************************************************************************)
\* C16: a frame callback takes one snapshot from the supplier and every
\* effect of the frame uses its values; the snapshot is the vector the
\* analysis loop published last, not the snapshot of an earlier frame
FrameUsesLatestVector ==
    [][FrameRendered =>
        LET sorted == SortMappings(EnabledMappings(config.mappings))
        IN /\ lastAudioFeatures' = audioFeaturesRef
           /\ Len(chain') = Len(sorted)
           /\ \A k \in 1..Len(sorted) :
                 chain'[k].featureValue = lastAudioFeatures'[sorted[k].audioFeature]]_vars

(***************************************************************************)
(* C17: after any sequence of resetConfig and updateMapping calls, every   *)
(* mapping's intensity lies within [minValue, maxValue] of the entry of    *)
(* EFFECTS for the mapping's current effectType.                           *)
(***************************************************************************)
WithinEffectRange(mapping) ==
    /\ mapping.intensity >= EFFECTS[mapping.effectType].minValue
    /\ mapping.intensity <= EFFECTS[mapping.effectType].maxValue

IntensityWithinEffectRange ==
    \A i \in 1..Len(config.mappings) : WithinEffectRange(config.mappings[i])

\* getAudioFeatures of MLAudioProcessor called while playing with no
\* classifier loaded
UnloadedCall == GetAudioFeatures /\ backend = "ml" /\ isPlaying /\ ~isModelLoaded

\* a classifier call of getAudioFeatures that threw or rejected
FailedCall == ClassifierSettled /\ classified'.outcome.threw

\* C18: when the classifier is not loaded, or its call throws or rejects,
\* getAudioFeatures resolves, never rejects, to the complete band-energy
\* vector of the frame it read; the failure changes neither isModelLoaded nor
\* the transport state
ClassifierFailureFallsBack ==
    [][/\ UnloadedCall =>
            /\ returned' = PerformBasicAnalysis(RawFeaturesOf[sampleRate][analyserData'],
                                                lastFeatures)
            /\ DOMAIN returned' = FeatureNames
       /\ FailedCall =>
            /\ classified'.promise = "resolved"
            /\ returned' = PerformBasicAnalysis(RawFeaturesOf[sampleRate][classified'.frame],
                                                lastFeatures)
            /\ DOMAIN returned' = FeatureNames
       /\ UnloadedCall \/ FailedCall =>
            UNCHANGED <<isModelLoaded, isLoadingModel, isPlaying, audioLoaded>>]_vars

\* a failed classifier call of a loaded classifier answered with band energies
FailedCallAnswered ==
    /\ classified.outcome.called /\ classified.outcome.threw
    /\ classified.promise = "resolved"
    /\ isModelLoaded /\ isPlaying
    /\ returned["bass"] > 0 /\ returned["energy"] > 0

\* the enabled mappings of one effect type, in their order in config.mappings
OfType(mappings, t) == SelectSeq(EnabledMappings(mappings), LAMBDA m : m.effectType = t)

\* C19: the enabled mappings of one effectType are all run by the same frame,
\* one right after the other, in their order in config.mappings, each with its
\* own audio feature and intensity (timeMachine steps wait for the history as
\* every timeMachine step does)
SameTypeInMappingOrder ==
    [][FrameRendered =>
        /\ Len(chain') = Len(EnabledMappings(config.mappings))
        /\ \A t \in EffectTypes \ {"none"} :
              LET ofType == OfType(config.mappings, t)
                  positions == {k \in 1..Len(chain') : chain'[k].effectType = t}
              IN /\ Cardinality(positions) = Len(ofType)
                 /\ \A k \in positions : \A j \in positions : \A between \in k..j :
                        between \in positions
                 /\ \A i \in 1..Len(ofType) :
                        LET k == CHOOSE first \in positions :
                                     \A other \in positions : first <= other
                            step == chain'[k + i - 1]
                        IN /\ step.intensity = ofType[i].intensity
                           /\ step.featureValue = lastAudioFeatures'[ofType[i].audioFeature]
                           /\ t # "timeMachine" => step.applied]_vars

\* a frame that ran two mappings of one effect type, which differ in their
\* intensity, on a vector that drives both
TwoOfOneType ==
    \E k \in 1..(Len(chain) - 1) :
        /\ chain[k].effectType = chain[k + 1].effectType
        /\ chain[k].applied /\ chain[k + 1].applied
        /\ chain[k].intensity # chain[k + 1].intensity
        /\ chain[k].featureValue > 0 /\ chain[k + 1].featureValue > 0

\* intensities below EFFECTS.timeMachine.minValue, which updateMapping accepts
NegativeIntensities == {-600, -10}

\* pixel p of a timeMachine output is the pixel of the history frame at index
\* idx (from 0), made opaque
CopiedFrom(output, history, idx, p) ==
    /\ idx >= 0 /\ idx < Len(history)
    /\ output[p] = [history[idx + 1][p] EXCEPT !.a = 255]

\* C20: every pixel of an applied timeMachine is copied from frameHistory at
\* an index between 0 and min(floor(featureValue * intensity), length - 1);
\* where the index computed is no valid history index (a negative amount) the
\* pixel is the one of the effect's input image, so nothing is read outside
\* frameHistory
TimeMachineReadsWithinHistory ==
    [][FrameRendered =>
        \A k \in 1..Len(chain') :
            chain'[k].effectType = "timeMachine" /\ chain'[k].applied =>
                LET step == chain'[k]
                    amount == Floor(step.featureValue * step.intensity, 100)
                    limit == Min(amount, Len(frameHistory') - 1)
                IN /\ amount >= 0
                   /\ \A p \in Positions :
                         /\ \E idx \in 0..limit :
                                CopiedFrom(step.output, frameHistory', idx, p)
                         /\ FrameIdx(frameIn'.timeMachineMap, frameHistory', step.featureValue,
                                     step.intensity, p) \in 0..limit
                   /\ \A intensity \in NegativeIntensities, p \in Positions :
                         LET idx == FrameIdx(frameIn'.timeMachineMap, frameHistory', 10,
                                             intensity, p)
                             output == ApplyTimeMachineEffect(step.input,
                                           frameIn'.timeMachineMap, frameHistory', 10, intensity)
                         IN IF idx >= 0 /\ idx < Len(frameHistory')
                            THEN CopiedFrom(output, frameHistory', idx, p)
                            ELSE output[p] = step.input[p]]_vars

\* a timeMachine step that took a pixel from an older frame of the history,
\* with the amount, not the history length, limiting how far back
OlderFrameShown ==
    \E k \in 1..Len(chain) :
        /\ chain[k].effectType = "timeMachine" /\ chain[k].applied
        /\ Floor(chain[k].featureValue * chain[k].intensity, 100) < Len(frameHistory) - 1
        /\ \E p \in Positions :
              /\ FrameIdx(frameIn.timeMachineMap, frameHistory, chain[k].featureValue,
                          chain[k].intensity, p) >= 1
              /\ chain[k].output[p] # [chain[k].input[p] EXCEPT !.a = 255]

(***************************************************************************)
(* C21: in the memory-counter detector, once the detections of a feature   *)
(* cease its reported value never increases, is 0 from the 8th callback    *)
(* without a detection at the latest and stays 0 until the next detection; *)
(* a detection made with the counter at 0 leaves the feature non-zero for  *)
(* exactly 3 callbacks: the detecting one and the two after it.            *)
(***************************************************************************)
DecayAfterDetection ==
    /\ [](backend = "meyda" =>
            \A p \in Percussive :
                /\ lastFeatures[p] * 8 = CounterOf(memory, p) * 1000
                /\ CounterOf(memory, p) = Max(0, lastPeak[p] - sinceDetection[p])
                /\ lastPeak[p] <= 8
                /\ sinceDetection[p] >= 8 => lastFeatures[p] = 0
                /\ lastPeak[p] = 3 => (lastFeatures[p] > 0 <=> sinceDetection[p] <= 2))
    /\ [][ProcessFeatures /\ detected'.present =>
            \A p \in Percussive :
                /\ ~detected'[p] =>
                      /\ lastFeatures'[p] <= lastFeatures[p]
                      /\ lastFeatures[p] = 0 => lastFeatures'[p] = 0
                /\ detected'[p] /\ CounterOf(memory, p) = 0 =>
                      lastPeak'[p] = 3 /\ lastFeatures'[p] = 375]_vars

\* a feature that was at the cap and has decayed to 0 on the 8th callback
\* without a detection
DecayedFromCap ==
    /\ backend = "meyda"
    /\ lastPeak["kick"] = 8 /\ sinceDetection["kick"] = 8
    /\ lastFeatures["kick"] = 0 /\ memory.kickCount = 0

\* feature values and intensities outside the nominal ranges ([0, 1] and
\* EFFECTS.displacement), in tenths
WildFeatureValues == {-10, 10, 20}

WildIntensities == {-600, 600, 100000}

\* the column (row) the displacement effect has to sample for a pixel at
\* coordinate c of an axis of the given size: floor(c + displace) brought back
\* to the nearest coordinate of the image, displace being
\* (red / 255 - 0.5) * (featureValue * intensity / 50) * size * 0.1
SampledWithin(c, size, red, featureValue, intensity) ==
    LET target == c + Floor((2 * red - 255) * featureValue * intensity * size, 25500000)
    IN IF target < 0 THEN 0 ELSE IF target > size - 1 THEN size - 1 ELSE target

\* the output of a displacement is, pixel by pixel, the source pixel at the
\* clamped sampled coordinates
ClampedCopy(output, sourceImage, map, featureValue, intensity) ==
    /\ DOMAIN output = Positions
    /\ \A p \in Positions :
          LET sourceX == SampledWithin(XOf(p), Width, MapRed(map, p), featureValue, intensity)
              sourceY == SampledWithin(YOf(p), Height, MapRed(map, p), featureValue, intensity)
          IN /\ sourceX \in 0..(Width - 1) /\ sourceY \in 0..(Height - 1)
             /\ PosOf(sourceX, sourceY) \in DOMAIN sourceImage
             /\ output[p] = sourceImage[PosOf(sourceX, sourceY)]

\* the displacement of the frames the video delivers, under every control map
\* and every feature value and intensity outside the nominal ranges
WildDisplacementsClamped ==
    \A n \in 0..1, map \in MapChoices, featureValue \in WildFeatureValues,
       intensity \in WildIntensities :
        ClampedCopy(ApplyDisplacementEffect(VideoFrame(n), map, featureValue, intensity),
                    VideoFrame(n), map, featureValue, intensity)

HistoryKeepsRawFrames ==
    /\ [](\A i \in 1..Len(frameHistory) : frameHistory[i] = VideoFrame(captured - i))
    /\ [][FrameRendered =>
            /\ frameHistory'[1] = VideoFrame(captured)
            /\ chain' # <<>> => chain'[1].input = frameHistory'[1]
            /\ \A k \in 1..Len(chain') : chain'[k].sourceAfter = chain'[k].input
            /\ \A i \in 2..Len(frameHistory') : frameHistory'[i] = frameHistory[i - 1]]_vars

\* a frame whose first effect changed the image it was handed, and whose
\* displayed image differs from the frame stored at index 0, with the frame
\* before it still stored behind
RawFrameKeptBesideOutput ==
    /\ Len(frameHistory) >= 2
    /\ chain # <<>>
    /\ chain[1].input = frameHistory[1]
    /\ chain[1].output # chain[1].input
    /\ chain[Len(chain)].output # frameHistory[1]
    /\ frameHistory[2] = VideoFrame(captured - 2)

\* C24: between frames at most one render callback is pending, and
\* isProcessing is true exactly when one is pending
OneCallbackWhileProcessing ==
    /\ Cardinality(scheduled) <= 1
    /\ isProcessing <=> scheduled # {}

(***************************************************************************)
(* Properties of the transport.                                            *)
(***************************************************************************)
\* getPlaybackState().currentTime
CurrentTime == GetCurrentTime(backend, audioLoaded, contextTime, Transport)

\* C26: seekTo(t) of MLAudioProcessor with audio loaded keeps the playing
\* state: while playing it leaves isPlaying true and playback goes on from t,
\* while paused it leaves isPlaying false and currentTime = t
SeekKeepsPlayingState ==
    [][SeekTo /\ backend = "ml" /\ audioLoaded =>
          /\ isPlaying' = isPlaying
          /\ CurrentTime' = pauseTime'
          /\ pauseTime' \in SeekChoices
          /\ isPlaying => startedAt' = pauseTime']_vars

(***************************************************************************)
(* Properties of the loading of the classifier.                            *)
(***************************************************************************)
\* C27: initModel calls, concurrent or repeated, start at most one model
\* load at a time: a call made while a load is in flight returns the promise
\* of that load, a call after a successful load returns true and loads
\* nothing, and isLoadingModel is false whenever no load is in flight, also
\* after a failed load, which a later call may retry
OneLoadAtATime ==
    /\ [](/\ Cardinality(loads) <= 1
          /\ isLoadingModel <=> loads # {}
          /\ loads \subseteq {modelInitPromise}
          /\ isModelLoaded => loads = {})
    /\ [][InitModel \/ (LoadAudio /\ backend = "ml") =>
            /\ isModelLoaded =>
                  initReturned'.kind = "true" /\ UNCHANGED <<loads, modelInitPromise>>
            /\ ~isModelLoaded /\ loads # {} =>
                  /\ initReturned'.kind = "promise" /\ initReturned'.load \in loads
                  /\ UNCHANGED <<loads, modelInitPromise>>
            /\ ~isModelLoaded /\ loads = {} =>
                  /\ initReturned'.kind = "promise" /\ loads' = {initReturned'.load}
                  /\ initReturned'.load \notin 0..modelInitPromise
            /\ isModelLoaded' = isModelLoaded]_vars

\* a call made while the retry of a failed load is in flight got the promise
\* of the retry
RetryInFlight ==
    /\ backend = "ml"
    /\ modelInitPromise = 2 /\ loads = {2} /\ isLoadingModel /\ ~isModelLoaded
    /\ initReturned = [kind |-> "promise", load |-> 2]

\* C28: on every back-end, after stop() the playback state reports
\* isPlaying = false and currentTime = 0, and the play() that follows starts
\* from position 0, whatever was paused or sought before
StopRewinds ==
    [][Stop =>
         /\ ~isPlaying'
         /\ CurrentTime' = 0
         /\ PlayOp(backend, audioLoaded, contextTime, Transport)'.startedAt = 0]_vars

\* C29: on the basic AudioProcessor, pause() while playing records the current
\* position, the reported position then stays at it however long the clock
\* runs, and play() resumes from it; pause() while not playing and play() with
\* nothing loaded change nothing
PauseKeepsPosition ==
    /\ [](backend = "basic" =>
            /\ ~isPlaying => PauseOp(backend, audioLoaded, contextTime, Transport) = Transport
            /\ ~audioLoaded => PlayOp(backend, audioLoaded, contextTime, Transport) = Transport)
    /\ [][backend = "basic" =>
            /\ Pause /\ isPlaying =>
                  ~isPlaying' /\ pauseTime' = CurrentTime /\ CurrentTime' = CurrentTime
            /\ ClockAdvances =>
                  CurrentTime' = IF isPlaying THEN CurrentTime + 1 ELSE CurrentTime
            /\ Play /\ audioLoaded /\ ~isPlaying =>
                  isPlaying' /\ startedAt' = pauseTime /\ CurrentTime' = CurrentTime]_vars

\* playback resumed from the position of a pause, and has gone on since
ResumedFromPause ==
    /\ backend = "basic" /\ isPlaying
    /\ startedAt > 0 /\ pauseTime = startedAt
    /\ CurrentTime > startedAt

(***************************************************************************)
(* Properties of updateMapping.                                            *)
(***************************************************************************)
\* the list updateMapping(index, upd) is to leave: the mapping at index gets
\* the fields of upd, everything else stays
MergedAt(mappings, index, upd) ==
    [k \in 1..Len(mappings) |->
        IF k = index + 1
        THEN [f \in DOMAIN mappings[k] |-> IF f \in DOMAIN upd THEN upd[f] ELSE mappings[k][f]]
        ELSE mappings[k]]

\* C30: updateMapping with an index out of range changes nothing; with a
\* valid index it merges the updates into that one mapping and leaves the
\* others and their number as they were; the next frame rendered uses the
\* updated mappings
UpdateMergesOneMapping ==
    [][/\ updates' # updates /\ UpdateMapping =>
           /\ Len(config'.mappings) = Len(config.mappings)
           /\ \E index \in IndexChoices, upd \in UpdateChoices :
                 config'.mappings = MergedAt(config.mappings, index, upd)
           /\ Cardinality({k \in 1..Len(config.mappings) :
                               config'.mappings[k] # config.mappings[k]}) <= 1
           /\ \A index \in IndexChoices, upd \in UpdateChoices :
                 UpdatedMappings(config.mappings, index, upd)
                     = IF index \in 0..(Len(config.mappings) - 1)
                       THEN MergedAt(config.mappings, index, upd)
                       ELSE config.mappings
       /\ FrameRendered =>
           /\ Len(chain') = Len(EnabledMappings(config.mappings))
           /\ {<<chain'[k].effectType, chain'[k].intensity>> : k \in 1..Len(chain')}
                = {<<config.mappings[k].effectType, config.mappings[k].intensity>> :
                     k \in {i \in 1..Len(config.mappings) :
                              /\ config.mappings[i].enabled
                              /\ config.mappings[i].effectType # "none"}}]_vars

\* a frame rendered without the effect of a mapping that was switched off
FrameWithoutDisabledMapping ==
    /\ captured > 0 /\ updates > 0
    /\ ~config.mappings[2].enabled
    /\ config.mappings[2].effectType = "timeMachine"
    /\ Len(chain) = 2
    /\ \A k \in 1..Len(chain) : chain[k].effectType # "timeMachine"

(***************************************************************************)
(* Properties of the analyzer component.                                   *)
(***************************************************************************)
\* the updatePlayback loops that are live: called, awaiting the classifier,
\* or scheduled as an animation frame
LiveLoops == (IF due THEN 1 ELSE 0) + Len(pending) + Cardinality(requested)

\* C25: whatever the interleaving of play/pause clicks and completions of the
\* asynchronous getAudioFeatures call (ML extractor), at most one
\* updatePlayback loop is live at any time
OneUpdateLoop == LiveLoops <= 1

====
